---- MODULE Spec2Model ----
(***************************************************************************)
(* State-machine model of src/Lua.hpp: the lua::state / lua::local handle  *)
(* layer over the Lua C API (build options of lines 53-56: LuaJIT,         *)
(* stateless strings, table return policy, smart functions).               *)
(*                                                                         *)
(* Scripting values are records [k, n, s]: k the runtime type, n a number  *)
(* payload, s a text payload.  A Lua number x is stored as n = 2*x, so the *)
(* half-integers are representable and "integral" means "n is even".       *)
(***************************************************************************)
EXTENDS Integers, Sequences, FiniteSets, TLC

\* ---------------------------------------------------------------- bounds
MaxHandles == 3      \* host variables of type lua::local
MaxRef     == 4      \* registry slots of one interpreter
MaxStack   == 8      \* interpreter stack slots
MaxTables  == 2      \* tables one interpreter allocates
MaxBufs    == 2      \* heap blocks of the stateless-string pool
MaxArgs    == 2      \* arguments of one call
MaxOps     == 4      \* operations the host performs in one run
MaxStates  == 3      \* host variables of type lua::state
MaxInterps == 3      \* interpreters luaL_newstate can return in one run
MaxProxies == 2      \* table_index objects the host holds besides a handle's tindex

\* ------------------------------------------------------------- constants
LUA_REFNIL == -1     \* lauxlib.h, used at src/Lua.hpp:429
NoCtx      == "null" \* s == nullptr, L == nullptr

Ctx     == {"A", "B"}
Handles == 1..MaxHandles
RefIds  == 1..MaxRef
TblIds  == 1..MaxTables
BufIds  == 1..MaxBufs
StateObjs == 1..MaxStates
Interps   == 1..MaxInterps
ProxyIds  == 1..MaxProxies

\* enum class local::type
Types == {"nil", "boolean", "number", "integer", "string", "stateless_string",
          "function", "cfunction", "userdata", "lightuserdata", "thread", "table"}

\* ------------------------------------------------------ scripting values
Val(k, n, s) == [k |-> k, n |-> n, s |-> s]
Nil       == Val("nil", 0, "")
Bool(b)   == Val("boolean", IF b THEN 1 ELSE 0, "")
Num(h)    == Val("number", h, "")            \* the number h/2
NumI(i)   == Num(2 * i)                      \* the integral number i
Str(t)    == Val("string", 0, t)
Fn(f)     == Val("function", 0, f)           \* a Lua closure
CFn(p)    == Val("cfunction", p, "")
LUd(p)    == Val("lightuserdata", p, "")
Tbl(id)   == Val("table", id, "")
Junk      == Val("junk", 0, "")              \* content of a slot that holds no anchor
Free      == Val("free", 0, "")              \* a registry slot on the free list

\* texts a script or a literal can carry
Texts    == {"x", "10"}
\* strings the runtime converts to a number (lua_isnumber is true of them)
StrIsNum(t) == t = "10"
StrNum(t)   == IF t = "10" THEN 20 ELSE 0    \* 2 * value

\* keys a table of the model can hold
TKeys == {NumI(i) : i \in 0..MaxArgs} \cup {Str("x")}
EmptyTable == [key \in TKeys |-> Nil]

\* global names and the chunk "defs" that defines the functions
FnNames == {"fid", "f2", "ferr"}
Names   == FnNames \cup {"g"}

VARIABLES
  stack,    \* [Ctx -> Seq(value)]: lua_State's stack
  reg,      \* [Ctx -> [RefIds -> value]]: LUA_REGISTRYINDEX integer slots
  tbl,      \* [Ctx -> [TblIds -> [TKeys -> value]]]: table contents
  ntbl,     \* [Ctx -> Nat]: tables allocated so far
  glob,     \* [Ctx -> [Names -> value]]: the global namespace
  pool,     \* [BufIds -> block]: malloc'ed blocks of stateless strings
  hs,       \* [Handles -> handle]: the host's lua::local variables
  viol,     \* contract violations of the runtime or the heap seen so far
  raised,   \* contexts in which a call has surfaced a script error
  nops,     \* operations performed so far
  last,     \* the last operation: what was asked and how it ended
  sts,      \* the host's lua::state variables and the interpreters made
  px,       \* the host's table_index proxy
  pxs       \* the host's further table_index objects, made by copy

vars == <<stack, reg, tbl, ntbl, glob, pool, hs, viol, raised, nops, last, sts, px, pxs>>

\* ------------------------------------------------------------ the world
\* Operators below thread one record through the statements of a C++
\* function.  ub: the statement sequence hit undefined behaviour (a null
\* lua_State, a pop below the stack base, a heap misuse); oom: it hit a
\* bound of the model.  Once either is set the remaining statements are
\* skipped.
World == [stack |-> stack, reg |-> reg, tbl |-> tbl, ntbl |-> ntbl,
          glob |-> glob, pool |-> pool, viol |-> viol,
          ub |-> FALSE, oom |-> FALSE]

Halted(w) == w.ub \/ w.oom
Crash(w, what) == [w EXCEPT !.ub = TRUE, !.viol = @ \cup {what}]
Flag(w, what)  == [w EXCEPT !.viol = @ \cup {what}]
OutOfModel(w)  == [w EXCEPT !.oom = TRUE]

\* ------------------------------------------------- Lua C API primitives
Top(w, c) == Len(w.stack[c])

AbsIdx(w, c, idx) == IF idx < 0 THEN Top(w, c) + idx + 1 ELSE idx

ValAt(w, c, idx) ==
  LET i == AbsIdx(w, c, idx)
  IN  IF i \in 1..Top(w, c) THEN w.stack[c][i] ELSE Junk

lua_push(w, c, v) ==
  IF Halted(w) THEN w
  ELSE IF c = NoCtx THEN Crash(w, "null_state")
  ELSE IF Top(w, c) >= MaxStack THEN OutOfModel(w)
  ELSE [w EXCEPT !.stack[c] = Append(@, v)]

lua_pop(w, c, n) ==
  IF Halted(w) THEN w
  ELSE IF c = NoCtx THEN Crash(w, "null_state")
  ELSE IF n > Top(w, c) THEN Crash(w, "stack_underflow")
  ELSE [w EXCEPT !.stack[c] = SubSeq(@, 1, Len(@) - n)]

lua_pushvalue(w, c, idx) ==
  IF Halted(w) \/ c = NoCtx THEN lua_push(w, c, Junk)
  ELSE lua_push(w, c, ValAt(w, c, idx))

Anchored(w, c, id) == c \in Ctx /\ id \in RefIds /\ w.reg[c][id] # Free

\* lua_rawgeti(L, LUA_REGISTRYINDEX, id)
lua_rawgeti(w, c, id) ==
  IF Halted(w) \/ c = NoCtx THEN lua_push(w, c, Junk)
  ELSE IF id = LUA_REFNIL THEN lua_push(w, c, Nil)
  ELSE IF Anchored(w, c, id) THEN lua_push(w, c, w.reg[c][id])
  ELSE lua_push(Flag(w, "deref_unanchored"), c, Junk)

FreeIds(w, c) == {id \in RefIds : w.reg[c][id] = Free}
MinOf(S) == CHOOSE x \in S : \A y \in S : x <= y

\* luaL_ref(L, LUA_REGISTRYINDEX): pops the top value and anchors it
\* under a free id; a nil value is not anchored and yields LUA_REFNIL.
luaL_ref(w, c) ==
  IF Halted(w) THEN [w |-> w, r |-> LUA_REFNIL]
  ELSE IF c = NoCtx THEN [w |-> Crash(w, "null_state"), r |-> LUA_REFNIL]
  ELSE IF Top(w, c) = 0 THEN [w |-> Crash(w, "stack_underflow"), r |-> LUA_REFNIL]
  ELSE LET v  == ValAt(w, c, -1)
           w1 == lua_pop(w, c, 1)
       IN  IF v = Nil THEN [w |-> w1, r |-> LUA_REFNIL]
           ELSE IF FreeIds(w, c) = {} THEN [w |-> OutOfModel(w), r |-> LUA_REFNIL]
           ELSE LET id == MinOf(FreeIds(w, c))
                IN  [w |-> [w1 EXCEPT !.reg[c][id] = v], r |-> id]

\* luaL_unref(L, LUA_REGISTRYINDEX, id): negative ids are ignored; an id
\* that holds no anchor breaks the registry's contract.
luaL_unref(w, c, id) ==
  IF Halted(w) THEN w
  ELSE IF c = NoCtx THEN Crash(w, "null_state")
  ELSE IF id < 0 THEN w
  ELSE IF Anchored(w, c, id) THEN [w EXCEPT !.reg[c][id] = Free]
  ELSE IF id \in RefIds THEN Flag(w, "unref_released")
  ELSE Flag(w, "unref_unanchored")

lua_createtable(w, c) ==
  IF Halted(w) THEN w
  ELSE IF c = NoCtx THEN Crash(w, "null_state")
  ELSE IF w.ntbl[c] >= MaxTables THEN OutOfModel(w)
  ELSE LET id == w.ntbl[c] + 1
       IN  lua_push([w EXCEPT !.ntbl[c] = id, !.tbl[c][id] = EmptyTable], c, Tbl(id))

\* lua_settable(L, idx): t[k] = v with v on top and k below it; pops both
lua_settable(w, c, idx) ==
  IF Halted(w) THEN w
  ELSE IF c = NoCtx THEN Crash(w, "null_state")
  ELSE IF Top(w, c) < 3 THEN Crash(w, "stack_underflow")
  ELSE LET t == ValAt(w, c, idx)
           k == ValAt(w, c, -2)
           v == ValAt(w, c, -1)
       IN  IF t.k # "table" \/ k = Nil THEN Crash(w, "lua_panic")
           ELSE IF k \notin TKeys THEN OutOfModel(w)
           ELSE lua_pop([w EXCEPT !.tbl[c][t.n][k] = v], c, 2)

\* lua_gettable(L, idx): replaces the key on top by t[k]
lua_gettable(w, c, idx) ==
  IF Halted(w) THEN w
  ELSE IF c = NoCtx THEN Crash(w, "null_state")
  ELSE IF Top(w, c) < 2 THEN Crash(w, "stack_underflow")
  ELSE LET t == ValAt(w, c, idx)
           k == ValAt(w, c, -1)
       IN  IF t.k # "table" THEN Crash(w, "lua_panic")
           ELSE lua_push(lua_pop(w, c, 1), c,
                         IF k \in TKeys THEN w.tbl[c][t.n][k] ELSE Nil)

lua_getglobal(w, c, n) ==
  IF Halted(w) \/ c = NoCtx THEN lua_push(w, c, Junk)
  ELSE lua_push(w, c, w.glob[c][n])

\* lua_setglobal(L, n): pops the top value into the global n
lua_setglobal(w, c, n) ==
  IF Halted(w) THEN w
  ELSE IF c = NoCtx THEN Crash(w, "null_state")
  ELSE IF Top(w, c) = 0 THEN Crash(w, "stack_underflow")
  ELSE lua_pop([w EXCEPT !.glob[c][n] = ValAt(w, c, -1)], c, 1)

RECURSIVE PushAll(_, _, _)
PushAll(w, c, vs) ==
  IF vs = <<>> THEN w ELSE PushAll(lua_push(w, c, Head(vs)), c, Tail(vs))

\* what the body of a Lua closure of the chunk "defs" does with its arguments
FnRaises(f)        == f = "ferr"
FnResults(f, args) == IF f = "fid" THEN args
                      ELSE IF f = "f2" THEN <<NumI(7), Str("x")>>
                      ELSE <<>>
ErrBoom        == "boom"
ErrNotFunction == "attempt to call a non-function value"

\* lua_pcall(L, nargs, LUA_MULTRET, 0): the callee and its nargs arguments
\* are popped; the results, or one error message, are pushed.
\* Yields the world, whether the call raised, and the results produced.
lua_pcall(w, c, nargs) ==
  IF Halted(w) THEN [w |-> w, err |-> FALSE, res |-> <<>>]
  ELSE IF c = NoCtx THEN [w |-> Crash(w, "null_state"), err |-> FALSE, res |-> <<>>]
  ELSE IF Top(w, c) < nargs + 1
       THEN [w |-> Crash(w, "stack_underflow"), err |-> FALSE, res |-> <<>>]
  ELSE LET f    == ValAt(w, c, -(nargs + 1))
           args == SubSeq(w.stack[c], Top(w, c) - nargs + 1, Top(w, c))
           w1   == lua_pop(w, c, nargs + 1)
       IN  IF f.k = "function" /\ ~FnRaises(f.s)
             THEN [w |-> PushAll(w1, c, FnResults(f.s, args)), err |-> FALSE,
                   res |-> FnResults(f.s, args)]
           ELSE IF f.k = "function"
             THEN [w |-> lua_push(w1, c, Str(ErrBoom)), err |-> TRUE, res |-> <<>>]
           ELSE IF f.k = "cfunction"
             THEN [w |-> w1, err |-> FALSE, res |-> <<>>]
           ELSE [w |-> lua_push(w1, c, Str(ErrNotFunction)), err |-> TRUE, res |-> <<>>]

\* lua_tostring(L, idx): the text of a string or number, else NULL ("")
lua_tostring(w, c, idx) ==
  LET v == ValAt(w, c, idx)
  IN  IF v.k = "string" THEN v.s
      ELSE IF v.k = "number" THEN "<number>"
      ELSE "<null>"


\* -------------------------------------------------------------- handles
\* A lua::local: s is the recorded context (s and L are always set
\* together), t the tag, m the member of the union `value` that was written
\* last and n what was written ("ref": a registry id; "string": the block
\* of a stateless string; "number": twice the number; "none": nothing
\* yet).  A tag "uninit" stands for a tag that was never initialised.
Handle(s, t, m, n) == [live |-> TRUE, s |-> s, t |-> t, m |-> m, n |-> n]
DeadHandle == [live |-> FALSE, s |-> NoCtx, t |-> "nil", m |-> "none", n |-> 0]

\* local::local(state&): neither t nor value is initialised
UninitLocal(c) == Handle(c, "uninit", "none", 0)

\* value.<member> read back: the number written if that member was written
\* last, else whatever the bytes hold, g
ReadAs(h, member, g) == IF h.m = member THEN h.n ELSE g

is_ref_type(h) == h.t \in {"string", "function", "userdata", "thread", "table"}

\* whether an operation on h reads bytes that were never written as the
\* member its tag selects
Mismatch(h) ==
  \/ is_ref_type(h) /\ h.m # "ref"
  \/ h.t \in {"boolean", "number", "integer", "cfunction", "lightuserdata"} /\ h.m # h.t
  \/ h.t = "stateless_string" /\ h.m # "string"

\* A lua::state variable: live whether the object exists, L the
\* interpreter it holds (0: nullptr).  made counts the interpreters
\* luaL_newstate has returned, closes[i] the lua_close calls on interpreter i.
NoState  == [live |-> FALSE, L |-> 0]
NoStates == [obj |-> [o \in StateObjs |-> NoState], made |-> 0,
             closes |-> [i \in Interps |-> 0]]

\* state::state(): luaL_newstate returns the next interpreter
state_new(ss, o) ==
  [ss EXCEPT !.made = @ + 1, !.obj[o] = [live |-> TRUE, L |-> ss.made + 1]]

\* a move that leaves the source holding its interpreter
state_move_keeping(ss, src, o) == [ss EXCEPT !.obj[o] = [live |-> TRUE, L |-> ss.obj[src].L]]

\* state::state(state &&s) : L(s.L) { s.L = nullptr; }
state_move(ss, src, o) ==
  [ss EXCEPT !.obj[o] = [live |-> TRUE, L |-> ss.obj[src].L], !.obj[src].L = 0]

\* state::~state(): lua_close unless L is nullptr
state_destroy(ss, o) ==
  IF ss.obj[o].L = 0 THEN [ss EXCEPT !.obj[o] = NoState]
  ELSE [ss EXCEPT !.obj[o] = NoState, !.closes[ss.obj[o].L] = @ + 1]

\* A table_index: s the recorded context, tblRef the container's registry
\* id, idxRef the id that anchors the key.
\* table_index::table_index()
DefaultProxy == [s |-> NoCtx, tblRef |-> LUA_REFNIL, idxRef |-> LUA_REFNIL]

\* a table_index object of the host: not constructed yet (or destroyed), or
\* holding the fields p
NoProxy    == [live |-> FALSE, p |-> DefaultProxy]
NoProxies  == [i \in ProxyIds |-> NoProxy]
Proxy(p)   == [live |-> TRUE, p |-> p]

\* ------------------------------------------------ stateless string pool
\* A block: st "free" or "live"; hdr whether the block starts with the
\* 4-byte reference count; refc that count; txt the bytes.
FreeBlock == [st |-> "free", hdr |-> FALSE, refc |-> 0, txt |-> ""]
FreeBufs(w) == {b \in BufIds : w.pool[b].st = "free"}

PoolEntry(w, p) == p \in BufIds /\ w.pool[p].st = "live" /\ w.pool[p].hdr

create_string(w, txt) ==
  IF Halted(w) THEN [w |-> w, p |-> 0]
  ELSE IF FreeBufs(w) = {} THEN [w |-> OutOfModel(w), p |-> 0]
  ELSE LET p == MinOf(FreeBufs(w))
       IN  [w |-> [w EXCEPT !.pool[p] = [st |-> "live", hdr |-> TRUE,
                                         refc |-> 1, txt |-> txt]],
            p |-> p]

\* a copy that takes the pointer and leaves the count alone
copy_string_uncounted(w, p) == [w |-> w, p |-> p]

\* get_string_refc(s) is s - 4: inside the block only if the block was
\* allocated with the count in front
copy_string(w, p) ==
  IF Halted(w) THEN [w |-> w, p |-> p]
  ELSE IF PoolEntry(w, p) THEN [w |-> [w EXCEPT !.pool[p].refc = @ + 1], p |-> p]
  ELSE [w |-> Crash(w, "heap_misuse"), p |-> p]

release_string(w, p) ==
  IF Halted(w) THEN w
  ELSE IF ~PoolEntry(w, p) THEN Crash(w, "heap_misuse")
  ELSE IF w.pool[p].refc - 1 = 0 THEN [w EXCEPT !.pool[p] = FreeBlock]
  ELSE [w EXCEPT !.pool[p].refc = @ - 1]

\* ------------------------------------------------- local: private part
\* Statement order: the value v of one statement is handed to the
\* statements K that follow it.
Bind(v, K(_)) == K(v)

push_ref_value(w, h, g) ==
  lua_rawgeti(IF h.m # "ref" THEN Flag(w, "garbage_read") ELSE w, h.s, ReadAs(h, "ref", g))

load_ref_value_no_type(w, h, idx) ==
  Bind(luaL_ref(lua_pushvalue(w, h.s, idx), h.s),
       LAMBDA r : [w |-> r.w, h |-> [h EXCEPT !.m = "ref", !.n = r.r]])

load_ref_value(w, h, idx) ==
  LET v == ValAt(w, h.s, idx)
      t == IF v.k \in {"string", "number"} THEN "string"
           ELSE IF v.k \in {"function", "cfunction"} THEN "function"
           ELSE IF v.k \in {"userdata", "lightuserdata"} THEN "userdata"
           ELSE IF v.k = "thread" THEN "thread"
           ELSE IF v.k = "table" THEN "table"
           ELSE h.t
  IN  load_ref_value_no_type(w, [h EXCEPT !.t = t], idx)

\* lua_isnumber: a number, or a string the runtime converts to one
lua_isnumber(v) == v.k = "number" \/ (v.k = "string" /\ StrIsNum(v.s))
\* twice lua_tonumber
lua_tonumber2(v) == IF v.k = "number" THEN v.n ELSE StrNum(v.s)

load_value(w, h, idx) ==
  IF Halted(w) THEN [w |-> w, h |-> h]
  ELSE IF h.s = NoCtx THEN [w |-> Crash(w, "null_state"), h |-> h]
  ELSE
  LET v == ValAt(w, h.s, idx)
  IN  IF v.k = "nil" THEN [w |-> w, h |-> [h EXCEPT !.t = "nil"]]
      ELSE IF v.k = "boolean"
        THEN [w |-> w, h |-> [h EXCEPT !.t = "boolean", !.m = "boolean", !.n = v.n]]
      ELSE IF lua_isnumber(v)
        THEN IF lua_tonumber2(v) % 2 = 0
               THEN [w |-> w, h |-> [h EXCEPT !.t = "integer", !.m = "integer",
                                              !.n = lua_tonumber2(v) \div 2]]
               ELSE [w |-> w, h |-> [h EXCEPT !.t = "number", !.m = "number",
                                              !.n = lua_tonumber2(v)]]
      ELSE IF v.k = "cfunction"
        THEN [w |-> w, h |-> [h EXCEPT !.t = "cfunction", !.m = "cfunction", !.n = v.n]]
      ELSE IF v.k = "lightuserdata"
        THEN [w |-> w, h |-> [h EXCEPT !.t = "lightuserdata", !.m = "lightuserdata",
                                       !.n = v.n]]
      ELSE load_ref_value(w, h, idx)

\* the value an immediate tag pushes
Immediate(h, g) ==
  IF h.t = "nil" THEN Nil
  ELSE IF h.t = "boolean" THEN Bool(ReadAs(h, "boolean", g) # 0)
  ELSE IF h.t = "number" THEN Num(ReadAs(h, "number", g))
  ELSE IF h.t = "integer" THEN NumI(ReadAs(h, "integer", g))
  ELSE IF h.t = "cfunction" THEN CFn(ReadAs(h, "cfunction", g))
  ELSE LUd(ReadAs(h, "lightuserdata", g))

\* push_value(L): immediates go to the stack of L; a reference kind goes
\* through push_ref_value, which uses the handle's own L
push_value(w, h, c, g) ==
  IF is_ref_type(h) THEN push_ref_value(w, h, g)
  ELSE IF h.t = "uninit" THEN Crash(w, "uninit_tag")
  ELSE IF h.t = "stateless_string"
    THEN IF h.m = "string" /\ h.n \in BufIds /\ w.pool[h.n].st = "live"
           THEN lua_push(w, c, Str(w.pool[h.n].txt))
           ELSE Crash(w, "heap_misuse")
  ELSE lua_push(IF Mismatch(h) THEN Flag(w, "garbage_read") ELSE w, c, Immediate(h, g))

\* release(): the handle's anchor or pool reference is given up
release(w, h, g) ==
  IF h.t = "uninit" THEN Crash(w, "uninit_tag")
  ELSE IF h.s # NoCtx /\ is_ref_type(h)
    THEN luaL_unref(IF Mismatch(h) THEN Flag(w, "garbage_read") ELSE w,
                    h.s, ReadAs(h, "ref", g))
  ELSE IF h.t = "stateless_string"
    THEN IF h.m = "string" THEN release_string(w, h.n) ELSE Crash(w, "heap_misuse")
  ELSE w

\* a copy that takes the registry id of the original and anchors nothing
copy_value_same_id(w, lcl, g) == [w |-> w, h |-> lcl]

copy_value(w, lcl, g) ==
  IF lcl.t = "uninit" THEN [w |-> Crash(w, "uninit_tag"), h |-> [lcl EXCEPT !.live = TRUE]]
  ELSE IF is_ref_type(lcl)
    THEN Bind(load_ref_value_no_type(push_ref_value(w, lcl, g),
                                     [lcl EXCEPT !.live = TRUE], -1),
              LAMBDA r : [w |-> lua_pop(r.w, lcl.s, 1), h |-> r.h])
  ELSE IF lcl.t = "stateless_string"
    THEN IF lcl.m = "string"
           THEN [w |-> copy_string(w, lcl.n).w, h |-> [lcl EXCEPT !.live = TRUE]]
           ELSE [w |-> Crash(w, "heap_misuse"), h |-> [lcl EXCEPT !.live = TRUE]]
  ELSE [w |-> w, h |-> [lcl EXCEPT !.live = TRUE]]

\* a check that lets every handle through
Inconsistant_never(h, c) == FALSE

\* check_state_consistancy(L) throws
Inconsistant(h, c) == h.s # NoCtx /\ h.s # c

\* std::malloc(slen + 1) of set_as_string: a block with no count in front
malloc_string(w, txt) ==
  IF Halted(w) THEN [w |-> w, p |-> 0]
  ELSE IF FreeBufs(w) = {} THEN [w |-> OutOfModel(w), p |-> 0]
  ELSE LET p == MinOf(FreeBufs(w))
       IN  [w |-> [w EXCEPT !.pool[p] = [st |-> "live", hdr |-> FALSE,
                                         refc |-> 0, txt |-> txt]],
            p |-> p]

\* ------------------------------------------------ local: public mutators
\* local::local(const char*)
literal_string(w, txt) ==
  Bind(create_string(w, txt),
       LAMBDA r : [w |-> r.w, h |-> Handle(NoCtx, "stateless_string", "string", r.p)])

\* local::local(local&&): the new handle, and what is left of the old one
move_to(lcl)   == lcl
move_from(lcl) == [lcl EXCEPT !.t = "nil"]

\* local::operator=(const local&)
assign(w, h, rhs, g) == copy_value(release(w, h, g), rhs, g)

set_as_nil(w, h, g) == [w |-> release(w, h, g), h |-> [h EXCEPT !.t = "nil"]]

\* a set_as_boolean that also forgets the handle's context
set_as_boolean_detached(w, h, b, g) ==
  [w |-> release(w, h, g),
   h |-> [h EXCEPT !.s = NoCtx, !.t = "boolean", !.m = "boolean", !.n = IF b THEN 1 ELSE 0]]

set_as_boolean(w, h, b, g) ==
  [w |-> release(w, h, g),
   h |-> [h EXCEPT !.t = "boolean", !.m = "boolean", !.n = IF b THEN 1 ELSE 0]]

\* set_as_function: the tag changes and value.ref keeps what it held
set_as_function(w, h, g) == [w |-> release(w, h, g), h |-> [h EXCEPT !.t = "function"]]

set_as_string(w, h, txt, g) ==
  IF h.s = NoCtx
    THEN Bind(malloc_string(release(w, h, g), txt),
              LAMBDA r : [w |-> r.w,
                          h |-> [h EXCEPT !.t = "stateless_string", !.m = "string",
                                          !.n = r.p]])
    ELSE Bind(load_ref_value_no_type(lua_push(release(w, h, g), h.s, Str(txt)),
                                     [h EXCEPT !.t = "string"], -1),
              LAMBDA r : [w |-> lua_pop(r.w, h.s, 1), h |-> r.h])

\* state::create_string: set_as_string on a local(state&), whose tag ut and
\* payload were never initialised
state_create_string(w, c, txt, ut, g) ==
  set_as_string(w, [UninitLocal(c) EXCEPT !.t = ut], txt, g)

\* ------------------------------------------------------ local: numbers
\* A number is held as twice its value, so the half-integers are the odd
\* payloads.  numberToInteger adds 1.5 * 2^52 to the double, which leaves the
\* sum rounded to a whole number in the default rounding mode (to nearest,
\* ties to even), and returns the low 32 bits of the sum's bit pattern as an
\* int.  The integers of the model are themselves 32 bits wide, so the low
\* 32 bits of a rounded value are that value.
numberToInteger_truncating(n) == IF n >= 0 THEN n \div 2 ELSE -((-n) \div 2)

numberToInteger(n) ==
  IF n % 2 = 0 THEN n \div 2
  ELSE IF ((n - 1) \div 2) % 2 = 0 THEN (n - 1) \div 2 ELSE (n + 1) \div 2

\* integerize: an integer stays, a number becomes the integer
\* numberToInteger gives
integerize(h, g) ==
  IF h.t = "integer" THEN h
  ELSE [h EXCEPT !.t = "integer", !.m = "integer",
                 !.n = numberToInteger(ReadAs(h, "number", g))]

\* local::local(bool | lua_Number | lua_CFunction | void*) with c = NoCtx and
\* local::local(state&, ...) with c the state: the tag and the payload of v
literal(c, v) == Handle(c, v.k, v.k, v.n)

set_as_number(w, h, n, g) ==
  [w |-> release(w, h, g),
   h |-> integerize([h EXCEPT !.t = "number", !.m = "number", !.n = n], g)]

set_as_integer(w, h, i, g) ==
  [w |-> release(w, h, g), h |-> [h EXCEPT !.t = "integer", !.m = "integer", !.n = i]]

set_as_cfunction(w, h, f, g) ==
  [w |-> release(w, h, g), h |-> [h EXCEPT !.t = "cfunction", !.m = "cfunction", !.n = f]]

set_as_lightuserdata(w, h, q, g) ==
  [w |-> release(w, h, g),
   h |-> [h EXCEPT !.t = "lightuserdata", !.m = "lightuserdata", !.n = q]]

\* ------------------------------------------------------ local: accessors
\* Each accessor yields a scripting value; NullPtr is the nullptr a pointer
\* accessor returns.
NullPtr == Val("nullptr", 0, "")

\* an accessor that reads the payload whatever the tag
to_boolean_untagged(h, g) == Bool(h.n # 0)

to_boolean(h, g) ==
  IF h.t = "boolean" THEN Bool(ReadAs(h, "boolean", g) # 0) ELSE Bool(FALSE)

to_number(h, g) ==
  IF h.t = "number" THEN Num(ReadAs(h, "number", g))
  ELSE IF h.t = "integer" THEN NumI(ReadAs(h, "integer", g))
  ELSE Num(0)

to_integer(h, g) ==
  IF h.t = "integer" THEN NumI(ReadAs(h, "integer", g))
  ELSE IF h.t = "number" THEN NumI(numberToInteger(ReadAs(h, "number", g)))
  ELSE NumI(0)

\* lua_tostring / lua_touserdata of the top slot, as the value returned
TopString(w, c) ==
  IF lua_tostring(w, c, -1) = "<null>" THEN NullPtr ELSE Str(lua_tostring(w, c, -1))
TopUserdata(w, c) ==
  IF ValAt(w, c, -1).k = "lightuserdata" THEN ValAt(w, c, -1) ELSE NullPtr

\* the text behind value.string
StringAt(w, q) == IF q \in BufIds /\ w.pool[q].st = "live" THEN Str(w.pool[q].txt) ELSE Junk

to_string(w, h, g) ==
  IF h.t = "string"
    THEN Bind(push_ref_value(w, h, g),
              LAMBDA w1 : [w |-> lua_pop(w1, h.s, 1), v |-> TopString(w1, h.s)])
  ELSE IF h.t = "stateless_string"
    THEN [w |-> w, v |-> StringAt(w, ReadAs(h, "string", g))]
  ELSE [w |-> w, v |-> NullPtr]

to_cfunction(h, g) ==
  IF h.t = "cfunction" THEN CFn(ReadAs(h, "cfunction", g)) ELSE NullPtr

to_userdata(w, h, g) ==
  IF h.t = "userdata"
    THEN Bind(push_ref_value(w, h, g),
              LAMBDA w1 : [w |-> lua_pop(w1, h.s, 1), v |-> TopUserdata(w1, h.s)])
  ELSE IF h.t = "lightuserdata"
    THEN [w |-> w, v |-> LUd(ReadAs(h, "lightuserdata", g))]
  ELSE [w |-> w, v |-> NullPtr]

\* local::local(state&, const char*): the string is pushed and anchored by
\* load_ref_value, which leaves the pushed string where it is
new_string(w, c, txt) ==
  load_ref_value(lua_push(w, c, Str(txt)), Handle(c, "string", "none", 0), -1)

\* lua_objlen of a table: a border, counted up from key 1
RECURSIVE Border(_, _)
Border(t, n) ==
  IF NumI(n + 1) \in TKeys /\ t[NumI(n + 1)] # Nil THEN Border(t, n + 1) ELSE n

\* the number of decimal digits of x >= 0
RECURSIVE Digits(_)
Digits(x) == IF x < 10 THEN 1 ELSE 1 + Digits(x \div 10)

\* strlen of the text the runtime prints for the number held as n
NumberLen(n) ==
  (IF n < 0 THEN 1 ELSE 0) + Digits((IF n < 0 THEN -n ELSE n) \div 2)
    + (IF n % 2 = 0 THEN 0 ELSE 2)

\* lua_objlen(L, -1): the length of a string, of the text of a number, a
\* border of a table, 0 for anything else
lua_objlen(w, c) ==
  LET v == ValAt(w, c, -1)
  IN  IF v.k = "string" THEN Len(v.s)
      ELSE IF v.k = "number" THEN NumberLen(v.n)
      ELSE IF v.k = "table" THEN Border(w.tbl[c][v.n], 0)
      ELSE 0

\* local::length
length(w, h, g) ==
  IF h.t \in {"table", "string"}
    THEN Bind(push_ref_value(w, h, g),
              LAMBDA w1 : [w |-> lua_pop(w1, h.s, 1),
                           v |-> IF Halted(w1) THEN Junk ELSE NumI(lua_objlen(w1, h.s))])
  ELSE IF h.t = "stateless_string"
    THEN [w |-> w,
          v |-> Bind(StringAt(w, ReadAs(h, "string", g)),
                     LAMBDA t : IF t.k = "string" THEN NumI(Len(t.s)) ELSE Junk)]
  ELSE [w |-> w, v |-> NumI(0)]

\* -------------------------------------------------- local: table access
\* Parameters of type `local` are passed by value: the caller's handle is
\* copied on entry (CopyAll) and the copy destroyed on exit (ReleaseAll),
\* also when the body throws.
RECURSIVE CopyAll(_, _, _)
CopyAll(w, ls, g) ==
  IF ls = <<>> THEN [w |-> w, hs |-> <<>>]
  ELSE Bind(copy_value(w, Head(ls), g),
            LAMBDA c1 : Bind(CopyAll(c1.w, Tail(ls), g),
                             LAMBDA rest : [w |-> rest.w, hs |-> <<c1.h>> \o rest.hs]))

RECURSIVE ReleaseAll(_, _, _)
ReleaseAll(w, ls, g) ==
  IF ls = <<>> THEN w ELSE ReleaseAll(release(w, Head(ls), g), Tail(ls), g)

\* the exit of a function that received the copies ps by value
Leave(body, ps, g) == [body EXCEPT !.w = ReleaseAll(body.w, ps, g)]

\* table_set(lua_Integer key, local value), with value already copied into p
table_set_int_body(w, h, key, value, g) ==
  IF h.t # "table" THEN [w |-> w, status |-> "NotTable"]
  ELSE IF Inconsistant(value, h.s) THEN [w |-> w, status |-> "CrossContext"]
  ELSE LET w1 == push_ref_value(w, h, g)
           w2 == lua_push(w1, h.s, NumI(key))
           w3 == push_value(w2, value, h.s, g)
           w4 == lua_settable(w3, h.s, -3)
       IN  [w |-> lua_pop(w4, h.s, 1), status |-> "ok"]

table_set_int(w, h, key, value, g) ==
  Bind(copy_value(w, value, g),
       LAMBDA p : Leave(table_set_int_body(p.w, h, key, p.h, g), <<p.h>>, g))

\* table_set(local key, local value)
table_set_body(w, h, key, value, g) ==
  IF h.t # "table" THEN [w |-> w, status |-> "NotTable"]
  ELSE IF Inconsistant(key, h.s) \/ Inconsistant(value, h.s)
    THEN [w |-> w, status |-> "CrossContext"]
  ELSE LET w1 == push_ref_value(w, h, g)
           w2 == push_value(w1, key, h.s, g)
           w3 == push_value(w2, value, h.s, g)
           w4 == lua_settable(w3, h.s, -3)
       IN  [w |-> lua_pop(w4, h.s, 1), status |-> "ok"]

table_set(w, h, key, value, g) ==
  Bind(CopyAll(w, <<key, value>>, g),
       LAMBDA p : Leave(table_set_body(p.w, h, p.hs[1], p.hs[2], g), p.hs, g))

\* the tail of both table_get overloads: local lcl(*s); lcl.load_value();
\* lua_pop(L, 1); return lcl
table_get_tail(w, h) ==
  Bind(load_value(w, UninitLocal(h.s), -1),
       LAMBDA l : [w |-> lua_pop(l.w, h.s, 1), status |-> "ok", ret |-> l.h])

\* table_get(local key)
table_get_body(w, h, key, g) ==
  IF h.t # "table" THEN [w |-> w, status |-> "NotTable", ret |-> DeadHandle]
  ELSE IF Inconsistant(key, h.s) THEN [w |-> w, status |-> "CrossContext", ret |-> DeadHandle]
  ELSE LET w1 == push_ref_value(w, h, g)
           w2 == push_value(w1, key, h.s, g)
           w3 == lua_gettable(w2, h.s, -2)
       IN  table_get_tail(w3, h)

table_get(w, h, key, g) ==
  Bind(copy_value(w, key, g),
       LAMBDA p : Leave(table_get_body(p.w, h, p.h, g), <<p.h>>, g))

\* table_get(lua_Integer key)
table_get_int(w, h, key, g) ==
  IF h.t # "table" THEN [w |-> w, status |-> "NotTable", ret |-> DeadHandle]
  ELSE LET w1 == push_ref_value(w, h, g)
           w2 == lua_push(w1, h.s, NumI(key))
           w3 == lua_gettable(w2, h.s, -2)
       IN  table_get_tail(w3, h)

\* ------------------------------------------------------------ table_index
\* table_index::table_index(state &s, int tblRef, local &idx)
table_index_new(w, c, tblRef, idx, g) ==
  IF Inconsistant(idx, c) THEN [w |-> w, status |-> "CrossContext", p |-> DefaultProxy]
  ELSE Bind(luaL_ref(push_value(w, idx, c, g), c),
            LAMBDA r : [w |-> r.w, status |-> "ok",
                        p |-> [s |-> c, tblRef |-> tblRef, idxRef |-> r.r]])

\* table_index::get_value, reached through operator local()
table_index_get_value(w, p) ==
  IF p.s = NoCtx THEN [w |-> w, status |-> "InvalidProxy", ret |-> DeadHandle]
  ELSE IF p.tblRef = LUA_REFNIL THEN [w |-> w, status |-> "NotBound", ret |-> DeadHandle]
  ELSE LET w1 == lua_rawgeti(w, p.s, p.tblRef)
           w2 == lua_rawgeti(w1, p.s, p.idxRef)
           w3 == lua_gettable(w2, p.s, -2)
       IN  Bind(load_value(w3, UninitLocal(p.s), -1),
                LAMBDA l : [w |-> lua_pop(l.w, p.s, 2), status |-> "ok", ret |-> l.h])

\* table_index::operator=(local rhs), with rhs already copied
table_index_assign_body(w, p, rhs, g) ==
  IF p.s = NoCtx THEN [w |-> w, status |-> "InvalidProxy"]
  ELSE IF Inconsistant(rhs, p.s) THEN [w |-> w, status |-> "CrossContext"]
  ELSE LET w1 == lua_rawgeti(w, p.s, p.tblRef)
           w2 == lua_rawgeti(w1, p.s, p.idxRef)
           w3 == push_value(w2, rhs, p.s, g)
           w4 == lua_settable(w3, p.s, -3)
       IN  [w |-> lua_pop(w4, p.s, 1), status |-> "ok"]

table_index_assign(w, p, rhs, g) ==
  Bind(copy_value(w, rhs, g),
       LAMBDA c : Leave(table_index_assign_body(c.w, p, c.h, g), <<c.h>>, g))

\* table_index::table_index(const table_index&): the key is read through
\* ti.s without a null test and anchored again; the container id is taken
\* over as it is
table_index_copy(w, ti) ==
  Bind(luaL_ref(lua_rawgeti(w, ti.s, ti.idxRef), ti.s),
       LAMBDA r : [w |-> r.w, status |-> "ok",
                   p |-> [s |-> ti.s, tblRef |-> ti.tblRef, idxRef |-> r.r]])

\* table_index::~table_index: only the key anchor is released
table_index_destroy(w, p) ==
  IF p.idxRef # LUA_REFNIL THEN luaL_unref(w, p.s, p.idxRef) ELSE w

\* a copy-assignment that keeps the key id of rhs and anchors nothing
table_index_copy_assign_same_id(w, p, rhs) ==
  [w |-> table_index_destroy(w, p), status |-> "ok", p |-> rhs]

\* table_index::operator=(const table_index&): the own key anchor is
\* released first, then the key of rhs is read and anchored again
table_index_copy_assign(w, p, rhs) ==
  Bind(table_index_destroy(w, p),
       LAMBDA w1 :
         IF rhs.s # NoCtx
           THEN Bind(luaL_ref(lua_rawgeti(w1, rhs.s, rhs.idxRef), rhs.s),
                     LAMBDA r : [w |-> r.w, status |-> "ok",
                                 p |-> [s |-> rhs.s, tblRef |-> rhs.tblRef, idxRef |-> r.r]])
           ELSE [w |-> w1, status |-> "ok", p |-> DefaultProxy])

\* local::release of a table handle whose tindex member is ti: the member is
\* assigned a default proxy, then the handle's own id is released
release_table(w, h, ti, g) ==
  Bind(table_index_copy_assign(w, ti, DefaultProxy),
       LAMBDA r : [w |-> release(r.w, h, g), p |-> r.p])

\* state::create_table: the new table stays on the stack
create_table(w, c) ==
  load_ref_value_no_type(lua_createtable(w, c), [UninitLocal(c) EXCEPT !.t = "table"], -1)

\* ----------------------------------------------------------- the call
CallResult(w, status, msg, ret, res) ==
  [w |-> w, status |-> status, msg |-> msg, ret |-> ret, res |-> res, pcalled |-> TRUE]
NoCall(w, status) ==
  [w |-> w, status |-> status, msg |-> "", ret |-> DeadHandle, res |-> <<>>,
   pcalled |-> FALSE]

\* the loop of do_call under LUA_WRAPPER_TABLE_RETURN
RECURSIVE do_call_loop(_, _, _, _, _)
do_call_loop(w, tblh, i, retc, g) ==
  IF i >= retc THEN w
  ELSE Bind(load_value(w, UninitLocal(tblh.s), -i - 1),
            LAMBDA retv :
              do_call_loop(release(table_set_int(retv.w, tblh, i, retv.h, g).w, retv.h, g),
                           tblh, i + 1, retc, g))

\* do_call from `int currTop = lua_gettop(L)` on
do_call_results(pc, h, prevTop, cargs, g) ==
  LET retc == -prevTop + Top(pc.w, h.s) + cargs + 1
  IN  IF retc = 0 THEN CallResult(pc.w, "ok", "", UninitLocal(h.s), pc.res)
      ELSE IF retc = 1
        THEN Bind(load_value(pc.w, UninitLocal(h.s), -1),
                  LAMBDA l : CallResult(l.w, "ok", "", l.h, pc.res))
      ELSE Bind(create_table(pc.w, h.s),
                LAMBDA t : CallResult(lua_pop(do_call_loop(t.w, t.h, 0, retc, g), h.s, retc),
                                      "ok", "", t.h, pc.res))

do_call_pcalled(pc, h, prevTop, cargs, g) ==
  IF Halted(pc.w) THEN CallResult(pc.w, "UB", "", DeadHandle, <<>>)
  ELSE IF pc.err
    THEN CallResult(lua_pop(pc.w, h.s, 1), "ScriptError", lua_tostring(pc.w, h.s, -1),
                    DeadHandle, <<>>)
  ELSE do_call_results(pc, h, prevTop, cargs, g)

do_call(w, h, cargs, g) ==
  do_call_pcalled(lua_pcall(w, h.s, cargs), h,
                  IF h.s = NoCtx THEN 0 ELSE Top(w, h.s), cargs, g)

\* prep_call
prep_call(w, h, g) == push_ref_value(w, h, g)

\* push_call_args, argument by argument: yields the world, how many
\* arguments were pushed, and whether check_state_consistancy threw
RECURSIVE push_call_args(_, _, _, _, _)
push_call_args(w, h, args, cargs, g) ==
  IF args = <<>> THEN [w |-> w, cargs |-> cargs, thrown |-> FALSE]
  ELSE IF Inconsistant(Head(args), h.s) THEN [w |-> w, cargs |-> cargs, thrown |-> TRUE]
  ELSE push_call_args(push_value(w, Head(args), h.s, g), h, Tail(args), cargs + 1, g)

\* check_is_function throws
NotFunction(h) == h.t # "function"

\* operator()(T arg, Args... args) and operator()(T arg), the arguments
\* already copied into args
call_args_pushed(a, h, g) ==
  IF a.thrown THEN NoCall(a.w, "CrossContext") ELSE do_call(a.w, h, a.cargs, g)

call_args_body(w, h, args, g) ==
  IF NotFunction(h) THEN NoCall(w, "NotCallable")
  ELSE call_args_pushed(push_call_args(prep_call(w, h, g), h, args, 0, g), h, g)

call_args(w, h, args, g) ==
  Bind(CopyAll(w, args, g), LAMBDA p : Leave(call_args_body(p.w, h, p.hs, g), p.hs, g))

\* operator()(): no arguments, and no check_is_function
call_noargs(w, h, g) == do_call(prep_call(w, h, g), h, 0, g)

operator_call(w, h, args, g) ==
  IF args = <<>> THEN call_noargs(w, h, g) ELSE call_args(w, h, args, g)

\* ------------------------------------------------------------- actions
\* What the last operation was: op its name, ctx the context it ran in, h
\* the receiver, args the handles passed, ret the host variable that took
\* the returned handle (0: none), status how it ended ("ok", the exception
\* thrown, or "UB"), msg the exception's text where the runtime supplies
\* it, res the values a callee produced (for a constructor or a mutator
\* the value it was given, for an accessor the value it returned), pcalled
\* whether lua_pcall ran.
Last(op, c, h, args, ret, status, msg, res, pcalled) ==
  [op |-> op, ctx |-> c, h |-> h, args |-> args, ret |-> ret, status |-> status,
   msg |-> msg, res |-> res, pcalled |-> pcalled]

Status(w, st) == IF w.ub THEN "UB" ELSE st

\* A step is taken only while the program has kept to the contracts of the
\* runtime and of the heap: what it does after breaking one is not followed.
Commit(w) ==
  /\ viol = {}
  /\ ~w.oom
  /\ nops < MaxOps
  /\ nops' = nops + 1
  /\ stack' = w.stack /\ reg' = w.reg /\ tbl' = w.tbl /\ ntbl' = w.ntbl
  /\ glob' = w.glob /\ pool' = w.pool /\ viol' = w.viol

\* an operation on handles, other than a call, that takes or yields the
\* values res
StepRes(w, op, c, h, args, ret, st, res) ==
  /\ Commit(w)
  /\ last' = Last(op, c, h, args, ret, Status(w, st), "", res, FALSE)
  /\ UNCHANGED <<raised, sts, px, pxs>>

Step(w, op, c, h, args, ret, st) == StepRes(w, op, c, h, args, ret, st, <<>>)

\* the bytes of a member that was never written can hold any number
GarbageInts == 0..MaxRef
Garbage(S) == IF \E h \in S : Mismatch(h) THEN GarbageInts ELSE {0}

\* the host variable d takes the handle h; a tag that was never
\* initialised holds any value of the enum
Install(d, h) ==
  IF h.t = "uninit"
    THEN \E ut \in Types : hs' = [hs EXCEPT ![d] = [h EXCEPT !.t = ut]]
    ELSE hs' = [hs EXCEPT ![d] = h]

\* a new handle goes to the first host variable that holds none
Dead(d) == ~hs[d].live /\ \A e \in Handles : e < d => hs[e].live
Live(h) == hs[h].live

\* the host variable a returned handle goes to (0: there is none left)
NewSlot == IF \E d \in Handles : Dead(d) THEN CHOOSE d \in Handles : Dead(d) ELSE 0

Init ==
  /\ stack = [c \in Ctx |-> <<>>]
  /\ reg = [c \in Ctx |-> [id \in RefIds |-> Free]]
  /\ tbl = [c \in Ctx |-> [id \in TblIds |-> EmptyTable]]
  /\ ntbl = [c \in Ctx |-> 0]
  /\ glob = [c \in Ctx |-> [n \in Names |-> Nil]]
  /\ pool = [b \in BufIds |-> FreeBlock]
  /\ hs = [h \in Handles |-> DeadHandle]
  /\ viol = {}
  /\ raised = {}
  /\ nops = 0
  /\ last = Last("init", NoCtx, 0, <<>>, 0, "ok", "", <<>>, FALSE)
  /\ sts = NoStates
  /\ px = DefaultProxy
  /\ pxs = NoProxies

\* state::get_global
get_global(w, c, n) ==
  Bind(load_value(lua_getglobal(w, c, n), UninitLocal(c), -1),
       LAMBDA l : [w |-> lua_pop(l.w, c, 1), h |-> l.h])

\* state::set_global(local lcl, const char *n): lcl is the copy of the
\* caller's handle; lua_setglobal runs before anything was pushed, and
\* push_value() pushes to the copy's own interpreter afterwards
set_global_body(w, c, lcl, n, g) == push_value(lua_setglobal(w, c, n), lcl, lcl.s, g)

set_global(w, c, h, n, g) ==
  Bind(copy_value(w, h, g),
       LAMBDA p : release(set_global_body(p.w, c, p.h, n, g), p.h, g))

\* The chunks a host runs: "defs" defines the functions of FnNames, "ret"
\* is `return 7`, "bad" does not compile, "raise" is `error("boom")`.
Chunks == {"defs", "ret", "bad", "raise"}
ChunkError(ch)   == IF ch = "bad" THEN "syntax error" ELSE IF ch = "raise" THEN ErrBoom ELSE ""
ChunkResults(ch) == IF ch = "ret" THEN <<NumI(7)>> ELSE <<>>
ChunkGlobals(gl, ch) ==
  IF ch = "defs" THEN [n \in Names |-> IF n \in FnNames THEN Fn(n) ELSE gl[n]] ELSE gl

\* luaL_dostring: luaL_loadstring, then lua_pcall(L, 0, LUA_MULTRET, 0).
\* On failure one message is pushed, on success every result of the chunk.
luaL_dostring(w, c, ch) ==
  IF Halted(w) THEN [w |-> w, failed |-> FALSE]
  ELSE IF ChunkError(ch) # ""
    THEN [w |-> lua_push(w, c, Str(ChunkError(ch))), failed |-> TRUE]
  ELSE [w |-> PushAll([w EXCEPT !.glob[c] = ChunkGlobals(@, ch)], c, ChunkResults(ch)),
        failed |-> FALSE]

\* state::do_string: the message is read from index 1, the bottom of the
\* stack; std::runtime_error built from a null pointer is undefined
do_string_failed(w, c, msg) ==
  IF msg = "<null>"
    THEN [w |-> Crash(w, "null_message"), status |-> "ScriptError", msg |-> msg]
    ELSE [w |-> lua_pop(w, c, 1), status |-> "ScriptError", msg |-> msg]

do_string(w, c, ch) ==
  Bind(luaL_dostring(w, c, ch),
       LAMBDA r : IF r.failed THEN do_string_failed(r.w, c, lua_tostring(r.w, c, 1))
                  ELSE [w |-> r.w, status |-> "ok", msg |-> ""])

\* an operation that yields the new handle r.h
Created(r, op, c, d) ==
  /\ Step(r.w, op, c, 0, <<>>, d, "ok")
  /\ Install(d, r.h)

\* a constructor that makes the new handle r.h of the value v
CreatedFrom(r, op, c, d, v) ==
  /\ StepRes(r.w, op, c, 0, <<>>, d, "ok", <<v>>)
  /\ Install(d, r.h)

GetGlobal(c, n, d) ==
  /\ Dead(d)
  /\ Created(get_global(World, c, n), "get_global", c, d)

SetGlobal(c, h, n) ==
  /\ Live(h)
  /\ \E g \in Garbage({hs[h]}) :
       /\ StepRes(set_global(World, c, hs[h], n, g), "set_global", c, h, <<>>, 0, "ok",
                  <<Str(n)>>)
       /\ hs' = hs

DoStringDone(r, c, ch) ==
  /\ Commit(r.w)
  /\ last' = Last("do_string", c, 0, <<>>, 0, Status(r.w, r.status), r.msg, <<Str(ch)>>, TRUE)
  /\ raised' = IF r.status = "ScriptError" THEN raised \cup {c} ELSE raised
  /\ UNCHANGED <<hs, sts, px, pxs>>

DoString(c, ch) == DoStringDone(do_string(World, c, ch), c, ch)

\* an operation on the lua::state variables: src the variable read, o the
\* one written
StateStep(ss, op, src, o) ==
  /\ viol = {} /\ nops < MaxOps
  /\ nops' = nops + 1
  /\ sts' = ss
  /\ last' = Last(op, NoCtx, src, <<>>, o, "ok", "", <<>>, FALSE)
  /\ UNCHANGED <<stack, reg, tbl, ntbl, glob, pool, hs, viol, raised, px, pxs>>

NewState(o) ==
  /\ ~sts.obj[o].live /\ sts.made < MaxInterps
  /\ StateStep(state_new(sts, o), "state", 0, o)

MoveState(src, o) ==
  /\ sts.obj[src].live /\ ~sts.obj[o].live
  /\ StateStep(state_move(sts, src, o), "state_move", src, o)

DestroyState(o) ==
  /\ sts.obj[o].live
  /\ StateStep(state_destroy(sts, o), "state_destroy", o, 0)

\* an operation on the proxy that ended with r.status and left the proxy q
ProxiesStep(r, op, c, h, ret, q, qs) ==
  /\ Commit(r.w)
  /\ last' = Last(op, c, h, <<>>, ret, Status(r.w, r.status), "", <<>>, FALSE)
  /\ px' = q
  /\ pxs' = qs
  /\ UNCHANGED <<raised, sts>>

ProxyStep(r, op, c, h, ret, q) == ProxiesStep(r, op, c, h, ret, q, pxs)

\* the registry ids a proxy can be given as its container: those of the
\* table handles, and the nil reference
TableRefs(c) ==
  {LUA_REFNIL} \cup {hs[h].n : h \in {x \in Handles : Live(x) /\ hs[x].t = "table" /\ hs[x].s = c}}

\* table_index::table_index(state&, int, local&) into the default proxy
ProxyNew(c, tblRef, k) ==
  /\ Live(k) /\ px = DefaultProxy
  /\ \E g \in Garbage({hs[k]}) :
       Bind(table_index_new(World, c, tblRef, hs[k], g),
            LAMBDA r : ProxyStep(r, "proxy_new", c, k, 0, r.p) /\ hs' = hs)

\* table_index::operator local(): the returned handle goes to NewSlot
ProxyGetDone(r, st) ==
  /\ ProxyStep(r, "proxy_get", px.s, 0, IF st = "ok" THEN NewSlot ELSE 0, px)
  /\ IF st = "ok" THEN NewSlot # 0 /\ Install(NewSlot, r.ret) ELSE hs' = hs

ProxyGet ==
  \E r \in {table_index_get_value(World, px)} : ProxyGetDone(r, Status(r.w, r.status))

\* table_index::operator=(local rhs)
ProxyAssign(rhs) ==
  /\ Live(rhs)
  /\ \E g \in Garbage({hs[rhs]}) :
       Bind(table_index_assign(World, px, hs[rhs], g),
            LAMBDA r : ProxyStep(r, "proxy_assign", px.s, rhs, 0, px) /\ hs' = hs)

\* the table_index objects of the host: 0 is px, the others are in pxs
ProxyAt(i)   == IF i = 0 THEN px ELSE pxs[i].p
ProxyLive(i) == IF i = 0 THEN TRUE ELSE pxs[i].live

\* table_index::table_index(state&, int, local&) from the table handle t
\* and the key handle k: tblRef is the handle's value.ref
ProxyOf(t, k) ==
  /\ Live(t) /\ hs[t].t = "table"
  /\ ProxyNew(hs[t].s, hs[t].n, k)

\* table_index::table_index(const table_index&): pxs[d] from proxy src
ProxyCopy(src, d) ==
  /\ ProxyLive(src) /\ ~pxs[d].live
  /\ Bind(table_index_copy(World, ProxyAt(src)),
          LAMBDA r : /\ ProxiesStep(r, "proxy_copy", ProxyAt(src).s, src, d, px,
                                    [pxs EXCEPT ![d] = Proxy(r.p)])
                     /\ hs' = hs)

\* table_index::operator=(const table_index&): pxs[d] = proxy src
ProxyCopyAssign(d, src) ==
  /\ pxs[d].live /\ ProxyLive(src)
  /\ Bind(table_index_copy_assign(World, pxs[d].p, ProxyAt(src)),
          LAMBDA r : /\ ProxiesStep(r, "proxy_copy_assign", ProxyAt(src).s, src, d, px,
                                    [pxs EXCEPT ![d] = Proxy(r.p)])
                     /\ hs' = hs)

\* table_index::~table_index of pxs[d]
ProxyDestroy(d) ==
  /\ pxs[d].live
  /\ ProxiesStep([w |-> table_index_destroy(World, pxs[d].p), status |-> "ok"],
                 "proxy_destroy", pxs[d].p.s, d, 0, px, [pxs EXCEPT ![d] = NoProxy])
  /\ hs' = hs

\* px is the tindex member of the table handle h: a bound px holds the
\* handle's id, and every handle's member starts as the default proxy
OwnsProxy(h) ==
  px = DefaultProxy \/ (px.s = hs[h].s /\ px.tblRef = hs[h].n)

\* local::~local of a table handle that owns px
DestroyOwner(h) ==
  /\ Live(h) /\ hs[h].t = "table" /\ OwnsProxy(h)
  /\ \E g \in Garbage({hs[h]}) :
       Bind(release_table(World, hs[h], px, g),
            LAMBDA r : /\ ProxiesStep([w |-> r.w, status |-> "ok"], "destroy_owner",
                                      hs[h].s, h, 0, r.p, pxs)
                       /\ hs' = [hs EXCEPT ![h] = DeadHandle])

\* local::local(bool) and local::local(state&, bool)
NewBoolean(c, b, d) ==
  /\ Dead(d)
  /\ CreatedFrom([w |-> World, h |-> Handle(c, "boolean", "boolean", IF b THEN 1 ELSE 0)],
                 "new_boolean", c, d, Bool(b))

\* local::local(const char*)
NewLiteral(txt, d) ==
  /\ Dead(d)
  /\ CreatedFrom(literal_string(World, txt), "new_literal", NoCtx, d, Str(txt))

\* local::local(state&, const char*)
NewString(c, txt, d) ==
  /\ Dead(d)
  /\ Created(new_string(World, c, txt), "new_string", c, d)

\* local::local(lua_Number) and local::local(state&, lua_Number)
NewNumber(c, n, d) ==
  /\ Dead(d)
  /\ CreatedFrom([w |-> World, h |-> literal(c, Num(n))], "new_number", c, d, Num(n))

\* local::local(lua_CFunction) and local::local(state&, lua_CFunction)
NewCFunction(c, f, d) ==
  /\ Dead(d)
  /\ CreatedFrom([w |-> World, h |-> literal(c, CFn(f))], "new_cfunction", c, d, CFn(f))

\* local::local(void*) and local::local(state&, void*)
NewPointer(c, q, d) ==
  /\ Dead(d)
  /\ CreatedFrom([w |-> World, h |-> literal(c, LUd(q))], "new_pointer", c, d, LUd(q))

\* state::create_table
CreateTable(c, d) ==
  /\ Dead(d)
  /\ Created(create_table(World, c), "create_table", c, d)

\* state::create_string
CreateString(c, txt, d) ==
  /\ Dead(d)
  /\ \E ut \in Types :
       \E g \in Garbage({[UninitLocal(c) EXCEPT !.t = ut]}) :
         Created(state_create_string(World, c, txt, ut, g), "create_string", c, d)

\* local::local(const local&)
Copy(h, d) ==
  /\ Live(h)
  /\ Dead(d)
  /\ \E g \in Garbage({hs[h]}) :
       Bind(copy_value(World, hs[h], g),
            LAMBDA r : /\ Step(r.w, "copy", hs[h].s, h, <<>>, d, "ok")
                       /\ Install(d, r.h))

\* local::local(local&&)
Move(h, d) ==
  /\ Live(h)
  /\ Dead(d)
  /\ Step(World, "move", hs[h].s, h, <<>>, d, "ok")
  /\ hs' = [hs EXCEPT ![d] = move_to(hs[h]), ![h] = move_from(hs[h])]

\* an operation that leaves the receiver h as r.h
Mutated(r, op, h, args) ==
  /\ Step(r.w, op, hs[h].s, h, args, 0, "ok")
  /\ hs' = [hs EXCEPT ![h] = r.h]

\* local::operator=(const local&), on two different handles
Assign(h, rhs) ==
  /\ Live(h) /\ Live(rhs) /\ h # rhs
  /\ \E g \in Garbage({hs[h], hs[rhs]}) :
       Mutated(assign(World, hs[h], hs[rhs], g), "assign", h, <<rhs>>)

\* local::operator=(const local&) with the handle itself as rhs: release()
\* runs on the object that copy_value then reads
AssignSelf(h) ==
  /\ Live(h)
  /\ \E g \in Garbage({hs[h]}) :
       Mutated(assign(World, hs[h], hs[h], g), "assign_self", h, <<h>>)

SetAsNil(h) ==
  /\ Live(h)
  /\ \E g \in Garbage({hs[h]}) : Mutated(set_as_nil(World, hs[h], g), "set_as_nil", h, <<>>)

SetAsBoolean(h, b) ==
  /\ Live(h)
  /\ \E g \in Garbage({hs[h]}) :
       Mutated(set_as_boolean(World, hs[h], b, g), "set_as_boolean", h, <<>>)

SetAsFunction(h) ==
  /\ Live(h)
  /\ \E g \in Garbage({hs[h]}) :
       Mutated(set_as_function(World, hs[h], g), "set_as_function", h, <<>>)

SetAsString(h, txt) ==
  /\ Live(h)
  /\ \E g \in Garbage({hs[h]}) :
       Mutated(set_as_string(World, hs[h], txt, g), "set_as_string", h, <<>>)

\* local::operator=(const char*)
AssignString(h, txt) ==
  /\ Live(h)
  /\ \E g \in Garbage({hs[h]}) :
       Mutated(set_as_string(World, hs[h], txt, g), "assign_string", h, <<>>)

\* a mutator that was given the value v
MutatedFrom(r, op, h, v) ==
  /\ StepRes(r.w, op, hs[h].s, h, <<>>, 0, "ok", <<v>>)
  /\ hs' = [hs EXCEPT ![h] = r.h]

\* set_as_number(n), and operator=(lua_Number) which only calls it
SetAsNumber(h, n, op) ==
  /\ Live(h)
  /\ \E g \in Garbage({hs[h]}) :
       MutatedFrom(set_as_number(World, hs[h], n, g), op, h, Num(n))

SetAsInteger(h, i) ==
  /\ Live(h)
  /\ \E g \in Garbage({hs[h]}) :
       MutatedFrom(set_as_integer(World, hs[h], i, g), "set_as_integer", h, NumI(i))

\* set_as_cfunction(f), and operator=(lua_CFunction)
SetAsCFunction(h, f, op) ==
  /\ Live(h)
  /\ \E g \in Garbage({hs[h]}) :
       MutatedFrom(set_as_cfunction(World, hs[h], f, g), op, h, CFn(f))

\* set_as_lightuserdata(p), and operator=(void*)
SetAsLightuserdata(h, q, op) ==
  /\ Live(h)
  /\ \E g \in Garbage({hs[h]}) :
       MutatedFrom(set_as_lightuserdata(World, hs[h], q, g), op, h, LUd(q))

\* local::operator=(bool)
AssignBoolean(h, b) ==
  /\ Live(h)
  /\ \E g \in Garbage({hs[h]}) :
       MutatedFrom(set_as_boolean(World, hs[h], b, g), "assign_boolean", h, Bool(b))

\* an accessor returned r.v and left the handle as it was
Accessed(r, op, h) ==
  /\ StepRes(r.w, op, hs[h].s, h, <<>>, 0, "ok", <<r.v>>)
  /\ UNCHANGED hs

ToBoolean(h) ==
  /\ Live(h)
  /\ \E g \in Garbage({hs[h]}) :
       Accessed([w |-> World, v |-> to_boolean(hs[h], g)], "to_boolean", h)

ToNumber(h) ==
  /\ Live(h)
  /\ \E g \in Garbage({hs[h]}) :
       Accessed([w |-> World, v |-> to_number(hs[h], g)], "to_number", h)

ToInteger(h) ==
  /\ Live(h)
  /\ \E g \in Garbage({hs[h]}) :
       Accessed([w |-> World, v |-> to_integer(hs[h], g)], "to_integer", h)

\* local::to_string (ToString is a name of the TLC module)
ToStringOf(h) ==
  /\ Live(h)
  /\ \E g \in Garbage({hs[h]}) : Accessed(to_string(World, hs[h], g), "to_string", h)

ToCFunction(h) ==
  /\ Live(h)
  /\ \E g \in Garbage({hs[h]}) :
       Accessed([w |-> World, v |-> to_cfunction(hs[h], g)], "to_cfunction", h)

ToUserdata(h) ==
  /\ Live(h)
  /\ \E g \in Garbage({hs[h]}) : Accessed(to_userdata(World, hs[h], g), "to_userdata", h)

\* local::length
Length(h) ==
  /\ Live(h)
  /\ \E g \in Garbage({hs[h]}) : Accessed(length(World, hs[h], g), "length", h)

\* local::~local
Destroy(h) ==
  /\ Live(h)
  /\ \E g \in Garbage({hs[h]}) :
       Mutated([w |-> release(World, hs[h], g), h |-> DeadHandle], "destroy", h, <<>>)

\* local::table_set(local, local)
TableSetDone(r, h, k, v) ==
  /\ Step(r.w, "table_set", hs[h].s, h, <<k, v>>, 0, r.status)
  /\ hs' = hs

TableSet(h, k, v) ==
  /\ Live(h) /\ Live(k) /\ Live(v)
  /\ \E g \in Garbage({hs[h], hs[k], hs[v]}) :
       TableSetDone(table_set(World, hs[h], hs[k], hs[v], g), h, k, v)

\* local::table_get(local): the returned handle goes to NewSlot
TableGetDone(r, st, h, k) ==
  /\ Step(r.w, "table_get", hs[h].s, h, <<k>>, IF st = "ok" THEN NewSlot ELSE 0, r.status)
  /\ IF st = "ok" THEN NewSlot # 0 /\ Install(NewSlot, r.ret) ELSE hs' = hs

TableGetReturned(r, h, k) == TableGetDone(r, Status(r.w, r.status), h, k)

TableGet(h, k) ==
  /\ Live(h) /\ Live(k)
  /\ \E g \in Garbage({hs[h], hs[k]}) :
       TableGetReturned(table_get(World, hs[h], hs[k], g), h, k)

\* local::table_set(lua_Integer, local)
TableSetInt(h, key, v) ==
  /\ Live(h) /\ Live(v)
  /\ \E g \in Garbage({hs[h], hs[v]}) :
       Bind(table_set_int(World, hs[h], key, hs[v], g),
            LAMBDA r : /\ StepRes(r.w, "table_set_int", hs[h].s, h, <<v>>, 0, r.status,
                                  <<NumI(key)>>)
                       /\ hs' = hs)

\* local::table_get(lua_Integer): the returned handle goes to NewSlot
TableGetIntDone(r, st, h, key) ==
  /\ StepRes(r.w, "table_get_int", hs[h].s, h, <<>>, IF st = "ok" THEN NewSlot ELSE 0,
             r.status, <<NumI(key)>>)
  /\ IF st = "ok" THEN NewSlot # 0 /\ Install(NewSlot, r.ret) ELSE hs' = hs

TableGetInt(h, key) ==
  /\ Live(h)
  /\ \E g \in Garbage({hs[h]}) :
       Bind(table_get_int(World, hs[h], key, g),
            LAMBDA r : TableGetIntDone(r, Status(r.w, r.status), h, key))

ArgLists == UNION {[1..n -> Handles] : n \in 0..MaxArgs}
ArgHandles(args) == [i \in DOMAIN args |-> hs[args[i]]]
Range(f) == {f[i] : i \in DOMAIN f}

\* local::operator(): the returned handle goes to the host variable NewSlot
CallDone(r, st, h, args) ==
  /\ Commit(r.w)
  /\ IF st = "ok" THEN NewSlot # 0 /\ Install(NewSlot, r.ret) ELSE hs' = hs
  /\ last' = Last("call", hs[h].s, h, args, IF st = "ok" THEN NewSlot ELSE 0,
                  st, r.msg, r.res, r.pcalled)
  /\ raised' = IF st = "ScriptError" THEN raised \cup {hs[h].s} ELSE raised
  /\ UNCHANGED <<sts, px, pxs>>

CallReturned(r, h, args) == CallDone(r, Status(r.w, r.status), h, args)

Call(h, args) ==
  /\ Live(h)
  /\ \A i \in DOMAIN args : Live(args[i])
  /\ \E g \in Garbage({hs[h]} \cup Range(ArgHandles(args))) :
       CallReturned(operator_call(World, hs[h], ArgHandles(args), g), h, args)

\* ------------------------------------------------------ specifications
\* Calls: two interpreters, the functions of A, boolean handles of either
\* context or of none, and operator().  The host has constructed both
\* interpreters and run, in A, the chunk that defines fid, f2 and ferr; the
\* operations counted are the ones that follow.
InitCall ==
  /\ Init!1 /\ Init!2 /\ Init!3 /\ Init!4 /\ Init!6 /\ Init!7 /\ Init!8 /\ Init!9
  /\ Init!10 /\ Init!12 /\ Init!13 /\ Init!14
  /\ glob = [c \in Ctx |-> [n \in Names |-> IF c = "A" /\ n \in FnNames THEN Fn(n) ELSE Nil]]
  /\ last = Last("do_string", "A", 0, <<>>, 0, "ok", "", <<>>, TRUE)

NextCall ==
  \/ \E n \in FnNames, d \in Handles : GetGlobal("A", n, d)
  \/ \E c \in Ctx \cup {NoCtx}, d \in Handles : NewBoolean(c, TRUE, d)
  \/ \E h \in Handles, args \in ArgLists : Call(h, args)

SpecCall == InitCall /\ [][NextCall]_vars

\* Tables: tables and booleans of either context, table_set and table_get
\* on the table handles, with any handles as key and value.
TableHandles == {h \in Handles : hs[h].t = "table"}

NextTable ==
  \/ \E c \in Ctx, d \in Handles : CreateTable(c, d)
  \/ \E c \in Ctx \cup {NoCtx}, d \in Handles : NewBoolean(c, TRUE, d)
  \/ \E h \in TableHandles, k, v \in Handles : TableSet(h, k, v)
  \/ \E h \in TableHandles, k \in Handles : TableGet(h, k)

SpecTable == Init /\ [][NextTable]_vars

\* Handle lifetimes in one interpreter: every way of the model to make a
\* handle hold an anchor, to change what it holds, and to end it.
NextLife ==
  \/ \E d \in Handles : CreateTable("A", d)
  \/ \E d \in Handles : CreateString("A", "x", d)
  \/ \E h, d \in Handles : Copy(h, d)
  \/ \E h, d \in Handles : Move(h, d)
  \/ \E h, rhs \in Handles : Assign(h, rhs)
  \/ \E h \in Handles : SetAsNil(h)
  \/ \E h \in Handles : SetAsBoolean(h, TRUE)
  \/ \E h \in Handles : SetAsString(h, "x")
  \/ \E h \in Handles : SetAsFunction(h)
  \/ \E h \in Handles : Destroy(h)

SpecLife == Init /\ [][NextLife]_vars

\* Stateless strings built from literals, then copied, moved and destroyed.
NextPool ==
  \/ \E txt \in Texts, d \in Handles : NewLiteral(txt, d)
  \/ \E h, d \in Handles : Copy(h, d)
  \/ \E h, d \in Handles : Move(h, d)
  \/ \E h \in Handles : Destroy(h)

SpecPool == Init /\ [][NextPool]_vars

\* Stateless strings installed by every operation that can install one.
NextString ==
  \/ \E txt \in Texts, d \in Handles : NewLiteral(txt, d)
  \/ \E h \in Handles, txt \in Texts : SetAsString(h, txt)
  \/ \E h \in Handles, txt \in Texts : AssignString(h, txt)
  \/ \E h, d \in Handles : Copy(h, d)
  \/ \E h \in Handles : Destroy(h)

SpecString == Init /\ [][NextString]_vars

\* Numbers: handles built from numeric literals, set again with
\* set_as_number and operator=(lua_Number), and read with to_number and
\* to_integer.  The numbers are -0.5, 0, 2.5, 3 and 3.5.
NumberInputs == {-1, 0, 5, 6, 7}

NextNumber ==
  \/ \E n \in NumberInputs, d \in Handles : NewNumber(NoCtx, n, d)
  \/ \E h \in Handles, n \in NumberInputs : SetAsNumber(h, n, "set_as_number")
  \/ \E h \in Handles, n \in NumberInputs : SetAsNumber(h, n, "assign_number")
  \/ \E h \in Handles : ToNumber(h)
  \/ \E h \in Handles : ToInteger(h)

SpecNumber == Init /\ [][NextNumber]_vars

\* Literals: context-free handles built from a literal of every kind and
\* read with every accessor.  Pointers are numbered from 1; 0 would be the
\* null pointer.
NextLiteral ==
  \/ \E b \in BOOLEAN, d \in Handles : NewBoolean(NoCtx, b, d)
  \/ \E n \in {6, 7}, d \in Handles : NewNumber(NoCtx, n, d)
  \/ \E d \in Handles : NewCFunction(NoCtx, 1, d)
  \/ \E d \in Handles : NewPointer(NoCtx, 1, d)
  \/ \E txt \in Texts, d \in Handles : NewLiteral(txt, d)
  \/ \E h \in Handles : ToBoolean(h)
  \/ \E h \in Handles : ToNumber(h)
  \/ \E h \in Handles : ToInteger(h)
  \/ \E h \in Handles : ToStringOf(h)
  \/ \E h \in Handles : ToCFunction(h)
  \/ \E h \in Handles : ToUserdata(h)

SpecLiteral == Init /\ [][NextLiteral]_vars

\* Aliases: tables of one interpreter, copies of their handles, integer-keyed
\* table_set and table_get through any of them, and the end of a handle by
\* destruction or reassignment.
NextAlias ==
  \/ \E d \in Handles : CreateTable("A", d)
  \/ \E d \in Handles : NewBoolean("A", TRUE, d)
  \/ \E h, d \in Handles : Copy(h, d)
  \/ \E h, v \in Handles, key \in 0..1 : TableSetInt(h, key, v)
  \/ \E h \in Handles, key \in 0..1 : TableGetInt(h, key)
  \/ \E h, rhs \in Handles : Assign(h, rhs)
  \/ \E h \in Handles : Destroy(h)

SpecAlias == Init /\ [][NextAlias]_vars

\* Globals and chunks of one interpreter: tables and booleans, set_global
\* and get_global of the name "g", and do_string of every chunk.
NextGlobal ==
  \/ \E d \in Handles : CreateTable("A", d)
  \/ \E d \in Handles : NewBoolean("A", TRUE, d)
  \/ \E h \in Handles : SetGlobal("A", h, "g")
  \/ \E d \in Handles : GetGlobal("A", "g", d)
  \/ \E ch \in Chunks : DoString("A", ch)

SpecGlobal == Init /\ [][NextGlobal]_vars

\* lua::state variables constructed, move-constructed and destroyed.
NextState ==
  \/ \E o \in StateObjs : NewState(o)
  \/ \E src, o \in StateObjs : MoveState(src, o)
  \/ \E o \in StateObjs : DestroyState(o)

SpecState == Init /\ [][NextState]_vars

\* The proxy: a table and a number of one interpreter, the proxy left
\* default or given a container id and a key, then read and assigned.
NextProxy ==
  \/ \E d \in Handles : CreateTable("A", d)
  \/ \E d \in Handles : NewNumber("A", 0, d)
  \/ \E tblRef \in TableRefs("A"), k \in Handles : ProxyNew("A", tblRef, k)
  \/ ProxyGet
  \/ \E rhs \in Handles : ProxyAssign(rhs)

SpecProxy == Init /\ [][NextProxy]_vars

\* Proxies of one table: built from a table handle and a key handle, copied,
\* copy-assigned, destroyed, and left behind by the table handle's release.
\* They start where the host has made a table, the number 0 and a nil
\* handle: state::create_table, local(state&, lua_Number) and local().
EmptyWorld ==
  [stack |-> [c \in Ctx |-> <<>>],
   reg   |-> [c \in Ctx |-> [id \in RefIds |-> Free]],
   tbl   |-> [c \in Ctx |-> [id \in TblIds |-> EmptyTable]],
   ntbl  |-> [c \in Ctx |-> 0],
   glob  |-> [c \in Ctx |-> [n \in Names |-> Nil]],
   pool  |-> [b \in BufIds |-> FreeBlock],
   viol  |-> {}, ub |-> FALSE, oom |-> FALSE]

NilLocal == Handle(NoCtx, "nil", "none", 0)

InitProxyLife ==
  /\ \E r \in {create_table(EmptyWorld, "A")} :
       /\ stack = r.w.stack /\ reg = r.w.reg /\ tbl = r.w.tbl /\ ntbl = r.w.ntbl
       /\ glob = r.w.glob /\ pool = r.w.pool
       /\ hs = [h \in Handles |-> IF h = 1 THEN r.h
                                  ELSE IF h = 2 THEN literal("A", Num(0))
                                  ELSE IF h = 3 THEN NilLocal ELSE DeadHandle]
  /\ Init!8 /\ Init!9 /\ Init!10 /\ Init!11 /\ Init!12 /\ Init!13 /\ Init!14

NextProxyLife ==
  \/ \E t, k \in Handles : ProxyOf(t, k)
  \/ \E src \in 0..MaxProxies, d \in ProxyIds : ProxyCopy(src, d)
  \/ \E d \in ProxyIds, src \in 0..MaxProxies : ProxyCopyAssign(d, src)
  \/ \E d \in ProxyIds : ProxyDestroy(d)
  \/ \E h \in Handles : DestroyOwner(h)

SpecProxyLife == InitProxyLife /\ [][NextProxyLife]_vars

\* The operations on one interpreter other than calls: handles are made,
\* copied and read, tables and proxies are read and written.
NextDepth ==
  \/ \E d \in Handles : CreateTable("A", d)
  \/ \E d \in Handles : NewString("A", "x", d)
  \/ \E d \in Handles : CreateString("A", "x", d)
  \/ \E d \in Handles : GetGlobal("A", "g", d)
  \/ \E h \in TableHandles, k, v \in Handles : TableSet(h, k, v)
  \/ \E h \in TableHandles, v \in Handles : TableSetInt(h, 1, v)
  \/ \E h \in TableHandles, k \in Handles : TableGet(h, k)
  \/ \E h \in TableHandles : TableGetInt(h, 1)
  \/ \E h, d \in Handles : Copy(h, d)
  \/ \E h \in Handles : ToStringOf(h)
  \/ \E h \in Handles : ToUserdata(h)
  \/ \E h \in Handles : Length(h)
  \/ \E t, k \in Handles : ProxyOf(t, k)
  \/ ProxyGet
  \/ \E rhs \in Handles : ProxyAssign(rhs)

SpecDepth == Init /\ [][NextDepth]_vars

\* Handles of every resource kind, copied, assigned to themselves and
\* destroyed.
NextSelf ==
  \/ \E d \in Handles : CreateTable("A", d)
  \/ \E d \in Handles : NewString("A", "x", d)
  \/ \E d \in Handles : NewLiteral("x", d)
  \/ \E d \in Handles : NewBoolean("A", TRUE, d)
  \/ \E h, d \in Handles : Copy(h, d)
  \/ \E h \in Handles : AssignSelf(h)
  \/ \E h \in Handles : Destroy(h)

SpecSelf == Init /\ [][NextSelf]_vars

\* One interpreter's tables written and read back: the values are strings,
\* numbers and tables of that interpreter.
NextRoundTrip ==
  \/ \E d \in Handles : CreateTable("A", d)
  \/ \E txt \in Texts, d \in Handles : NewString("A", txt, d)
  \/ \E d \in Handles : NewNumber("A", 1, d)
  \/ \E h \in TableHandles, k, v \in Handles : TableSet(h, k, v)
  \/ \E h \in TableHandles, v \in Handles : TableSetInt(h, 1, v)
  \/ \E h \in TableHandles, k \in Handles : TableGet(h, k)
  \/ \E h \in TableHandles : TableGetInt(h, 1)

SpecRoundTrip == Init /\ [][NextRoundTrip]_vars

\* Context-free handles: built from literals, changed with the set_as_*
\* mutators, copied, assigned and destroyed.
NextFree ==
  \/ \E d \in Handles : NewBoolean(NoCtx, TRUE, d)
  \/ \E d \in Handles : NewLiteral("x", d)
  \/ \E h \in Handles : SetAsFunction(h)
  \/ \E h \in Handles : SetAsNil(h)
  \/ \E h \in Handles : SetAsString(h, "x")
  \/ \E h, d \in Handles : Copy(h, d)
  \/ \E h, rhs \in Handles : Assign(h, rhs)
  \/ \E h \in Handles : Destroy(h)

SpecFree == Init /\ [][NextFree]_vars

\* Contexts: the chunk that defines the functions, handles of an
\* interpreter and of none, every mutator, literal assignment and
\* accessor on the first host variable, integer-keyed table access, a
\* call with one argument, and the assignment of one handle to another on
\* any of them.
\* the host variable whose handle the host changes and reads; the others
\* hold operands and results
Worked == {1}

NextContext ==
  \/ \E c \in {"A", NoCtx}, d \in Handles : NewBoolean(c, TRUE, d)
  \/ \E d \in Handles : CreateTable("A", d)
  \/ DoString("A", "defs")
  \/ \E d \in Handles : GetGlobal("A", "fid", d)
  \/ \E h \in Worked : SetAsNil(h)
  \/ \E h \in Worked : SetAsBoolean(h, TRUE)
  \/ \E h \in Worked, op \in {"set_as_number", "assign_number"} : SetAsNumber(h, 7, op)
  \/ \E h \in Worked : SetAsInteger(h, 1)
  \/ \E h \in Worked, op \in {"set_as_cfunction", "assign_cfunction"} : SetAsCFunction(h, 1, op)
  \/ \E h \in Worked, op \in {"set_as_lightuserdata", "assign_pointer"} :
        SetAsLightuserdata(h, 1, op)
  \/ \E h \in Worked : SetAsString(h, "x")
  \/ \E h \in Worked : AssignString(h, "x")
  \/ \E h \in Worked : AssignBoolean(h, TRUE)
  \/ \E h \in Worked : ToBoolean(h)
  \/ \E h \in Worked : ToNumber(h)
  \/ \E h \in Worked : ToInteger(h)
  \/ \E h \in Worked : ToStringOf(h)
  \/ \E h \in Worked : ToCFunction(h)
  \/ \E h \in Worked : ToUserdata(h)
  \/ \E h, v \in Handles : TableSetInt(h, 0, v)
  \/ \E h \in Handles : TableGetInt(h, 0)
  \/ \E h, a \in Handles : Call(h, <<a>>)
  \/ \E h, rhs \in Handles : Assign(h, rhs)

SpecContext == Init /\ [][NextContext]_vars

\* --------------------------------------------------------------- claims
\* the step just taken is an operator() / a table_get or table_set
CallStep  == last'.op = "call" /\ nops' = nops + 1
TableStep == last'.op \in {"table_get", "table_set"} /\ nops' = nops + 1

\* h is recorded in an interpreter, and not in c
OtherContext(h, c) == h.s \in Ctx /\ h.s # c

\* h holds the anchor of a value of runtime type k, written by the layer
Anchors(h, k) ==
  /\ h.live /\ h.t = k /\ h.m = "ref" /\ h.s \in Ctx
  /\ Anchored(World, h.s, h.n)
  /\ reg[h.s][h.n].k = k

\* the script value a handle stands for: what push_value puts on the stack
Pushed(w, h) == ValAt(push_value(w, h, h.s, 0), h.s, -1)
Got(r)       == Pushed(r.w, r.ret)

\* the table handle t holds the results res under the keys 0..n-1
HoldsInOrder(w, t, res) ==
  /\ t.t = "table"
  /\ \A i \in 0..(Len(res) - 1) : Got(table_get_int(w, t, i, 0)) = res[i + 1]

\* the handle a call returned stands for what the callee produced
ReturnsResults(w, h, res) ==
  IF Len(res) = 0 THEN h.t = "nil"
  ELSE IF Len(res) = 1 THEN Pushed(w, h) = res[1]
  ELSE HoldsInOrder(w, h, res)

\* C1: whenever operator() is invoked on a function handle, with any
\* number of arguments and results, and whether or not the callee raises,
\* the stack of the callee's interpreter is as deep when operator() returns
\* or throws as it was before the callee was pushed.
C1_StackRestored ==
  [][(CallStep /\ Anchors(hs[last'.h], "function") /\ viol' = {})
       => Len(stack'[last'.ctx]) = Len(stack[last'.ctx])]_vars

\* C2: a call that produced n >= 2 results returns a table handle t with
\* t.table_get(i) = r_i for every i in 0..n-1.
C2_TableHoldsResults ==
  (last.op = "call" /\ last.status = "ok" /\ Len(last.res) >= 2 /\ viol = {})
    => HoldsInOrder(World, hs[last.ret], last.res)

\* C3: a call that produced no result returns a handle whose tag is nil
\* and whose context is the callee's.
C3_ZeroResultsNil ==
  (last.op = "call" /\ last.status = "ok" /\ Len(last.res) = 0 /\ viol = {})
    => hs[last.ret].t = "nil" /\ hs[last.ret].s = last.ctx

\* C4: operator() on a handle whose tag is not a function kind, with any
\* number of arguments, throws the not-callable error; nothing was pushed
\* and the payload was not read as a registry id.
C4_NotCallable ==
  [][(CallStep /\ hs[last'.h].t \notin {"function", "cfunction"})
       => /\ last'.status = "NotCallable"
          /\ stack' = stack
          /\ viol' = {}]_vars

\* C5: a call with an argument of another context than the callee's fails,
\* leaves the callee's stack as deep as it was, and runs no protected call.
C5_CrossContextBalanced ==
  [][(/\ CallStep
      /\ Anchors(hs[last'.h], "function")
      /\ \E i \in DOMAIN last'.args : OtherContext(hs[last'.args[i]], last'.ctx)
      /\ viol' = {})
       => /\ last'.status = "CrossContext"
          /\ Len(stack'[last'.ctx]) = Len(stack[last'.ctx])
          /\ ~last'.pcalled]_vars

\* C6: a call of a function whose body raises throws the script error with
\* the runtime's message and returns no handle; after that, a call of a
\* function of the same context whose body does not raise succeeds and
\* returns what the function produced.
C6_ErrorThenSuccess ==
  [][(/\ CallStep
      /\ Anchors(hs[last'.h], "function")
      /\ \A i \in DOMAIN last'.args : ~OtherContext(hs[last'.args[i]], last'.ctx)
      /\ viol' = {})
       => IF FnRaises(reg[last'.ctx][hs[last'.h].n].s)
            THEN /\ last'.status = "ScriptError"
                 /\ last'.msg = ErrBoom
                 /\ last'.ret = 0
                 /\ hs' = hs
            ELSE last'.ctx \in raised
                   => /\ last'.status = "ok"
                      /\ ReturnsResults(World', hs'[last'.ret], last'.res)]_vars

\* C7: table_get and table_set on a table handle, given a key or a value
\* handle of another context, throw the cross-context error and leave the
\* stacks of both interpreters and the contents of every table as they were.
C7_CrossContextRejected ==
  [][(/\ TableStep
      /\ Anchors(hs[last'.h], "table")
      /\ \E i \in DOMAIN last'.args : OtherContext(hs[last'.args[i]], last'.ctx))
       => /\ last'.status = "CrossContext"
          /\ stack' = stack
          /\ tbl' = tbl]_vars

\* a table_set was refused for its value, the key being acceptable, while
\* the other interpreter's stack is not empty
C7_Reached ==
  /\ last.op = "table_set" /\ last.status = "CrossContext"
  /\ Anchors(hs[last.h], "table")
  /\ ~OtherContext(hs[last.args[1]], last.ctx)
  /\ OtherContext(hs[last.args[2]], last.ctx)
  /\ is_ref_type(hs[last.args[2]])

\* C8: no registry id is released twice, none is released that holds no
\* anchor of the layer, and once every handle is destroyed no anchor is
\* left; stated for the runs in which no uninitialised member was read.
C8_ReleasedOnce ==
  "garbage_read" \notin viol
    => /\ viol \cap {"unref_released", "unref_unanchored"} = {}
       /\ (\A h \in Handles : ~Live(h))
            => \A c \in Ctx, id \in RefIds : reg[c][id] = Free

\* the live handles whose stateless string is the block b
Aliases(b) == {h \in Handles : Live(h) /\ hs[h].t = "stateless_string" /\ hs[h].n = b}

\* C9: the count of every stateless-string block is the number of live
\* handles that alias it; a block is free exactly when no handle aliases
\* it, and the heap was never misused (no block freed twice).
C9_RefcountIsAliasCount ==
  /\ viol = {}
  /\ \A b \in BufIds :
       IF Aliases(b) = {} THEN pool[b] = FreeBlock
       ELSE PoolEntry(World, b) /\ pool[b].refc = Cardinality(Aliases(b))

\* a destruction left a block with one alias, another handle having been
\* moved from
C9_Reached ==
  /\ last.op = "destroy"
  /\ \E b \in BufIds :
       /\ Cardinality(Aliases(b)) = 1
       /\ \E h \in Handles : Live(h) /\ hs[h].t = "nil" /\ hs[h].m = "string" /\ hs[h].n = b

\* C10: the stateless string of every handle is a pool entry with its own
\* count, and the count is 1 when the literal constructor, set_as_string or
\* operator=(const char*) has just installed it.
C10_PayloadIsPoolEntry ==
  /\ \A h \in Handles :
       (Live(h) /\ hs[h].t = "stateless_string") => PoolEntry(World, hs[h].n)
  /\ (last.op \in {"set_as_string", "assign_string"} /\ last.status = "ok")
       => pool[hs[last.h].n].refc = 1
  /\ (last.op = "new_literal" /\ last.status = "ok")
       => pool[hs[last.ret].n].refc = 1

\* a handle operation other than a call has just been performed
OpStep(ops) == last'.op \in ops /\ nops' = nops + 1

\* C11: after set_as_number(n), operator=(lua_Number n) or the construction
\* of a handle from the numeric literal n, the handle is tagged integer if
\* and only if n is a whole number, a half-integer n stays a number, and
\* to_number() returns n.
C11_ClassifiedOnSet ==
  [][OpStep({"set_as_number", "assign_number", "new_number"}) =>
       LET n == last'.res[1].n
           h == hs'[IF last'.op = "new_number" THEN last'.ret ELSE last'.h]
       IN  /\ h.t = (IF n % 2 = 0 THEN "integer" ELSE "number")
           /\ to_number(h, 0) = Num(n)]_vars

\* C12: to_integer() on a handle tagged number that holds x returns a whole
\* number at most 1/2 away from x, the even one when x lies halfway between
\* two whole numbers (so 3.5 gives 4 and not the truncation 3), as a value
\* of the 32-bit range, and changes neither the handle nor the stack.
C12_RoundsHalfToEven ==
  [][(OpStep({"to_integer"}) /\ hs[last'.h].t = "number") =>
       LET x2 == hs[last'.h].n
           r2 == last'.res[1].n
       IN  /\ r2 % 2 = 0
           /\ r2 - x2 \in {-1, 0, 1}
           /\ (x2 % 2 = 1) => (r2 % 4 = 0)
           /\ hs' = hs /\ stack' = stack]_vars

\* to_integer() has returned 4 for a handle that holds the number 3.5
C12_Reached ==
  /\ last.op = "to_integer" /\ last.status = "ok"
  /\ hs[last.h].t = "number" /\ hs[last.h].n = 7
  /\ last.res = <<NumI(4)>>

\* what the accessors to_boolean, to_number, to_string, to_cfunction and
\* to_userdata return for the handle h in the world w
Reads(w, h) ==
  [to_boolean |-> to_boolean(h, 0), to_number |-> to_number(h, 0),
   to_string |-> to_string(w, h, 0).v, to_cfunction |-> to_cfunction(h, 0),
   to_userdata |-> to_userdata(w, h, 0).v]

\* what they are to return for a handle built from the literal v: v from
\* the accessor of its kind, the neutral default from the others
RoundTrip(v) ==
  [to_boolean   |-> IF v.k = "boolean" THEN v ELSE Bool(FALSE),
   to_number    |-> IF v.k = "number" THEN v ELSE Num(0),
   to_string    |-> IF v.k = "string" THEN v ELSE NullPtr,
   to_cfunction |-> IF v.k = "cfunction" THEN v ELSE NullPtr,
   to_userdata  |-> IF v.k = "lightuserdata" THEN v ELSE NullPtr]

LiteralCtors == {"new_boolean", "new_number", "new_cfunction", "new_pointer", "new_literal"}

TableOf(h)      == reg[h.s][h.n]
TableOfAfter(h) == reg'[h.s][h.n]

\* Anchors, of a handle after the step
AnchorsAfter(h, k) ==
  /\ h.live /\ h.t = k /\ h.m = "ref" /\ h.s \in Ctx
  /\ Anchored(World', h.s, h.n)
  /\ reg'[h.s][h.n].k = k

\* C14: the copy b of a table handle a holds a registry id different from
\* a's that anchors the same table; after x.table_set(k, v) through any
\* handle x of a table, table_get(k) through every handle of that table
\* gives v; and the destruction or reassignment of one handle leaves every
\* other table handle with its id, anchored to the table it had.
C14_CopiesAliasOneTable ==
  [][/\ (OpStep({"copy"}) /\ Anchors(hs[last'.h], "table")) =>
          /\ AnchorsAfter(hs'[last'.h], "table") /\ AnchorsAfter(hs'[last'.ret], "table")
          /\ hs'[last'.ret].n # hs'[last'.h].n
          /\ TableOfAfter(hs'[last'.ret]) = TableOf(hs[last'.h])
          /\ TableOfAfter(hs'[last'.h]) = TableOf(hs[last'.h])
     /\ (OpStep({"table_set_int"}) /\ last'.status = "ok") =>
          \A b \in Handles :
            (Anchors(hs[b], "table") /\ TableOf(hs[b]) = TableOf(hs[last'.h])) =>
              Got(table_get_int(World', hs'[b], last'.res[1].n \div 2, 0))
                = Pushed(World, hs[last'.args[1]])
     /\ OpStep({"destroy", "assign"}) =>
          \A b \in Handles \ {last'.h} :
            Anchors(hs[b], "table") =>
              /\ AnchorsAfter(hs'[b], "table") /\ hs'[b] = hs[b]
              /\ TableOfAfter(hs'[b]) = TableOf(hs[b])]_vars

\* a table_set through one handle of a table that has a second handle,
\* with another id
C14_Reached ==
  /\ last.op = "table_set_int" /\ last.status = "ok"
  /\ \E b \in Handles \ {last.h} :
       /\ Anchors(hs[b], "table") /\ TableOf(hs[b]) = TableOf(hs[last.h])
       /\ hs[b].n # hs[last.h].n

\* the value of the handle that get_global(n) returns in the world w
GlobalRead(w, c, n) == Bind(get_global(w, c, n), LAMBDA r : Pushed(r.w, r.h))

\* C15: set_global(h, n) with a handle h of the context makes the global n
\* the value of h, so that get_global(n) gives a handle for that value; it
\* takes nothing from the stack and leaves the stack as it was; get_global
\* leaves the stack depth as it was.
C15_GlobalRoundTrip ==
  [][/\ (OpStep({"set_global"}) /\ hs[last'.h].s = last'.ctx) =>
          /\ last'.status = "ok"
          /\ GlobalRead(World', last'.ctx, last'.res[1].s) = Pushed(World, hs[last'.h])
          /\ stack' = stack
     /\ OpStep({"get_global"}) =>
          Len(stack'[last'.ctx]) = Len(stack[last'.ctx])]_vars

\* C16: a do_string that fails raises an error carrying the interpreter's
\* message for the chunk, whatever the stack held before, and leaves the
\* stack as it was; a do_string that succeeds leaves no result on the stack.
C16_MessageAndStack ==
  [][OpStep({"do_string"}) =>
       /\ stack' = stack
       /\ IF ChunkError(last'.res[1].s) # ""
            THEN last'.status = "ScriptError" /\ last'.msg = ChunkError(last'.res[1].s)
            ELSE last'.status = "ok"]_vars

\* the lua::state variables that hold the interpreter i
Owners(i) == {o \in StateObjs : sts.obj[o].live /\ sts.obj[o].L = i}

\* C17: every interpreter that was created either has exactly one owner and
\* was never closed, or has no owner and was closed exactly once; no
\* interpreter exists that luaL_newstate did not return; and the source of
\* a move holds no interpreter.
C17_OneOwnerOneClose ==
  /\ \A i \in Interps :
       IF i <= sts.made
         THEN \/ Cardinality(Owners(i)) = 1 /\ sts.closes[i] = 0
              \/ Owners(i) = {} /\ sts.closes[i] = 1
         ELSE Owners(i) = {} /\ sts.closes[i] = 0
  /\ last.op = "state_move" => sts.obj[last.h].L = 0

\* an interpreter was closed by the destruction of the variable it had
\* been moved to, while the variable it was moved from still exists
C17_Reached ==
  /\ last.op = "state_destroy"
  /\ \E i \in Interps : sts.closes[i] = 1
  /\ \E o \in StateObjs : sts.obj[o].live /\ sts.obj[o].L = 0

\* C18: a read or an assignment through a proxy with no context fails with
\* the invalid-handle error; through a proxy that has a context and the
\* nil reference as its container, the read fails as not bound and the
\* assignment is rejected with an error; in each case the stack, the
\* registry and the globals are left as they were.
C18_UnboundProxyRejected ==
  [][(OpStep({"proxy_get", "proxy_assign"}) /\ px.tblRef = LUA_REFNIL) =>
       /\ IF px.s = NoCtx THEN last'.status = "InvalidProxy"
          ELSE IF last'.op = "proxy_get" THEN last'.status = "NotBound"
          ELSE last'.status \notin {"ok", "UB"}
       /\ stack' = stack /\ reg' = reg /\ glob' = glob]_vars

\* C19: no operation hands a null interpreter to the runtime to dereference
\* a registry id, and no live handle has a reference-kind tag and no context.
C19_NoContextFreeReference ==
  /\ "null_state" \notin viol
  /\ \A h \in Handles : Live(h) => ~(is_ref_type(hs[h]) /\ hs[h].s = NoCtx)

\* the operations that are to keep the receiver's context
KeepsContext ==
  {"set_as_nil", "set_as_boolean", "set_as_number", "set_as_integer", "set_as_string",
   "set_as_cfunction", "set_as_lightuserdata", "assign_boolean", "assign_number",
   "assign_cfunction", "assign_pointer", "assign_string", "to_boolean", "to_number",
   "to_integer", "to_string", "to_cfunction", "to_userdata", "table_set_int",
   "table_get_int", "call"}

HandleIds(c) ==
  {hs[h].n : h \in {x \in Handles : Live(x) /\ hs[x].s = c /\ is_ref_type(hs[x])}}
LiveProxies == {i \in 0..MaxProxies : ProxyLive(i)}
KeyIds(c) ==
  {ProxyAt(i).idxRef : i \in {j \in LiveProxies : ProxyAt(j).s = c}} \ {LUA_REFNIL}
AnchoredIds(c) == {id \in RefIds : reg[c][id] # Free}

\* C21: over proxy construction, copy, copy-assignment, destruction and the
\* release of the table handle, every key anchor is released exactly once
\* (no anchor is released twice, read after its release, or left behind
\* with no owner), a proxy made by copy holds a key id different from its
\* source's, a constructed proxy holds the table handle's id, and the
\* table handle's id stays anchored whatever the proxies do.
C21_KeyAnchorsOwnedOnce ==
  /\ viol = {}
  /\ AnchoredIds("A") = HandleIds("A") \cup KeyIds("A")
  /\ last.op \in {"proxy_copy", "proxy_copy_assign"} /\ last.h # last.ret
       /\ ProxyAt(last.h).s # NoCtx
       => ProxyAt(last.ret).idxRef # ProxyAt(last.h).idxRef
  /\ last.op = "proxy_new" /\ last.status = "ok"
       => \E t \in Handles : Live(t) /\ hs[t].t = "table" /\ px.tblRef = hs[t].n
  /\ \A t \in Handles : Live(t) /\ hs[t].t = "table" => Anchored(World, "A", hs[t].n)

\* ---- C22
DepthOps ==
  {"create_table", "new_string", "create_string", "get_global", "table_get",
   "table_get_int", "table_set", "table_set_int", "copy", "to_string",
   "to_userdata", "length", "proxy_get", "proxy_assign"}

\* C22: an operation other than a call that works on the interpreter and
\* breaks none of its contracts leaves the stack as deep as it found it.
C22_DepthKept ==
  [][(OpStep(DepthOps) /\ last'.ctx \in Ctx /\ viol' = {})
       => Len(stack'[last'.ctx]) = Len(stack[last'.ctx])]_vars

\* ---- C23
\* C23: h = h on a sound handle breaks no contract and leaves h denoting
\* what it denoted: a reference-kind handle still holds an anchor of the
\* same value, and a stateless string still has its block, whose count is
\* the number of handles that alias it.
C23_SelfAssignKeeps ==
  [][(OpStep({"assign_self"}) /\ viol = {}) =>
       /\ viol' = {}
       /\ hs'[last'.h].t = hs[last'.h].t
       /\ Anchors(hs[last'.h], hs[last'.h].t) =>
            /\ AnchorsAfter(hs'[last'.h], hs[last'.h].t)
            /\ TableOfAfter(hs'[last'.h]) = TableOf(hs[last'.h])
       /\ (hs[last'.h].t = "stateless_string" /\ PoolEntry(World, hs[last'.h].n)) =>
            /\ hs'[last'.h].n = hs[last'.h].n
            /\ PoolEntry(World', hs[last'.h].n)
            /\ pool'[hs[last'.h].n].refc = Cardinality(Aliases(hs[last'.h].n))]_vars

\* ---- C24
\* C24: once t.table_set(k, v) has stored the value of v, with a handle or
\* an integer as the key, t.table_get(k) returns a handle of the script
\* value that v stands for: the same runtime type and the same value, a
\* string with a numeric text included.
C24_ReadsBackWhatWasSet ==
  [][/\ (OpStep({"table_set"}) /\ last'.status = "ok" /\ viol' = {}) =>
          Got(table_get(World', hs'[last'.h], hs'[last'.args[1]], 0))
            = Pushed(World, hs[last'.args[2]])
     /\ (OpStep({"table_set_int"}) /\ last'.status = "ok" /\ viol' = {}) =>
          Got(table_get_int(World', hs'[last'.h], last'.res[1].n \div 2, 0))
            = Pushed(World, hs[last'.args[1]])]_vars
====
